---- MODULE Spec2Model ----
(***************************************************************************)
(* Staged asynchronous activation state machines of systemd:              *)
(*   - network link bring-up     (src/src/network/networkd-link.c)         *)
(*   - bus-name activation       (src/src/core/busname.c)                  *)
(* Every handler of the C code is one atomic action (the event loop is    *)
(* single threaded; a handler runs to completion before the next event).  *)
(***************************************************************************)
EXTENDS Integers, Sequences, FiniteSets, TLC

VARIABLES
    link,      \* the Link object: state, rtnl_messages, flags & IFF_UP
    network,   \* link->network: bridge?, number of addresses, number of routes
    rtnl,      \* the rtnl transport: completions registered and not yet dispatched, per handler
    step,      \* history: what the last handler did (calls issued, states assigned, asserts)
    hist,      \* history: statuses dispatched so far, completions drained while Failed
    n,         \* the BusName object: state, deserialized_state, result, starter_fd, event_source
    phase,     \* where the manager is with the unit: restore, live, serialized, freed, gone
    lines,     \* the serialized items of the unit not yet handed to deserialize_item
    fds,       \* the FDSet passed across the restart
    kfds,      \* the descriptors of the unit that are open in the process
    bstep,     \* history: what the last bus-name operation did
    links,     \* m->links: the registry of Link objects, keyed by ifindex
    added      \* history: what the last event on the registry did

linkvars == <<link, network, rtnl, step, hist, links, added>>

busvars == <<n, phase, lines, fds, kfds, bstep>>

(***************************************************************************)
(* Bounds of the model                                                     *)
(***************************************************************************)
MaxAddresses == 3
MaxRoutes == 3
\* descriptors are numbered 0..MaxFd
MaxFd == 2
\* a serialization read back has at most MaxLines lines for one unit
MaxLines == 3
\* interfaces have the indexes 1..MaxIfindex
MaxIfindex == 2

(***************************************************************************)
(* networkd-link.c                                                         *)
(***************************************************************************)
EEXIST == 17
ENOENT == 2
ENOMEM == 12
EINVAL == 22

\* sd_rtnl_message_get_errno(m): 0, -EEXIST, or another negative errno
Status == {0, 0 - EEXIST, 0 - 5}

Kinds == {"bridge", "link", "address", "route"}

\* Outcome of the submissions a handler makes: does bridge_join / link_up succeed,
\* and how many address_configure / route_configure calls succeed before one fails.
Oracles(net) == [bridge : BOOLEAN, up : BOOLEAN,
                 addr : 0..net.addresses, route : 0..net.routes]

\* link->state = s
SetState(l, s) == [l EXCEPT !.state = s, !.path = Append(@, s)]

\* assert(c)
Check(l, c) == [l EXCEPT !.ok = @ /\ c]

\* A submission to the transport (sd_rtnl_call_async behind bridge_join, link_up,
\* address_configure, route_configure): on success one completion is registered
\* and dispatched later by the event loop, never inline; on failure none is.
Submit(l, kind, succeeds) ==
    [l EXCEPT !.q[kind] = IF succeeds THEN @ + 1 ELSE @,
              !.calls = Append(@, [kind |-> kind, ok |-> succeeds, cnt |-> l.rtnl_messages])]

\* link->rtnl_messages ++
Inc(l) == [l EXCEPT !.rtnl_messages = @ + 1]

\* link->rtnl_messages --
Dec(l) == [l EXCEPT !.rtnl_messages = @ - 1]

\* log_warning(...) in a completion handler
Warn(l, c) == [l EXCEPT !.warned = @ \/ c]

link_enter_configured(l) == SetState(l, "Configured")

link_enter_failed(l) == SetState(l, "Failed")

link_is_up(l) == l.up

\* Mutant of link_enter_routes_set: the link is configured whether it is up or not.
link_enter_routes_set_nowait(l) == link_enter_configured(l)

link_enter_routes_set(l) ==
    IF link_is_up(l) THEN link_enter_configured(l)
    ELSE SetState(l, "RoutesSet")

\* Mutant of route_loop: the counter is incremented before the request is
\* submitted and taken back when the submission fails.
RECURSIVE route_loop_incfirst(_, _, _, _)
route_loop_incfirst(l, i, net, o) ==
    IF i > net.routes THEN l
    ELSE IF i > o.route THEN link_enter_failed(Dec(Submit(Inc(l), "route", FALSE)))
    ELSE route_loop_incfirst(Submit(Inc(l), "route", TRUE), i + 1, net, o)

\* LIST_FOREACH(routes, ...) of link_enter_set_routes, from the i-th route on
RECURSIVE route_loop(_, _, _, _)
route_loop(l, i, net, o) ==
    IF i > net.routes THEN l
    ELSE IF i > o.route THEN link_enter_failed(Submit(l, "route", FALSE))
    ELSE route_loop(Inc(Submit(l, "route", TRUE)), i + 1, net, o)

link_enter_set_routes(l, net, o) ==
    LET a == Check(Check(l, l.rtnl_messages = 0), l.state = "AddressesSet")
        b == SetState(a, "SetRoutes")
    IN  IF net.routes = 0 THEN link_enter_routes_set(b)
        ELSE route_loop(b, 1, net, o)

\* Mutant of link_enter_addresses_set: the state is not set before the routes
\* are started.
link_enter_addresses_set_nostate(l, net, o) == link_enter_set_routes(l, net, o)

link_enter_addresses_set(l, net, o) ==
    link_enter_set_routes(SetState(l, "AddressesSet"), net, o)

\* Mutant of route_handler: returns in Failed before the counter is decremented.
route_handler_keep(l, r, net, o) ==
    LET a == Check(Check(l, l.rtnl_messages > 0), l.state \in {"SetRoutes", "Failed"})
    IN  IF a.state = "Failed" THEN a
        ELSE LET c == Warn(Dec(a), r < 0 /\ r # 0 - EEXIST)
             IN  IF c.rtnl_messages = 0 THEN link_enter_routes_set(c) ELSE c

\* Mutant of route_handler: the check for Failed is missing.
route_handler_nofailcheck(l, r, net, o) ==
    LET a == Check(Check(l, l.rtnl_messages > 0), l.state \in {"SetRoutes", "Failed"})
        c == Warn(Dec(a), r < 0 /\ r # 0 - EEXIST)
    IN  IF c.rtnl_messages = 0 THEN link_enter_routes_set(c) ELSE c

route_handler(l, r, net, o) ==
    LET a == Check(Check(l, l.rtnl_messages > 0), l.state \in {"SetRoutes", "Failed"})
        b == Dec(a)
    IN  IF b.state = "Failed" THEN b
        ELSE LET c == Warn(b, r < 0 /\ r # 0 - EEXIST)
             IN  IF c.rtnl_messages = 0 THEN link_enter_routes_set(c) ELSE c

\* Mutant of address_handler: the stage advances one completion early.
address_handler_early(l, r, net, o) ==
    LET a == Check(Check(l, l.rtnl_messages > 0), l.state \in {"SetAddresses", "Failed"})
        b == Dec(a)
    IN  IF b.state = "Failed" THEN b
        ELSE LET c == Warn(b, r < 0 /\ r # 0 - EEXIST)
             IN  IF c.rtnl_messages <= 1 THEN link_enter_addresses_set(c, net, o) ELSE c

\* Mutant of address_handler: an error status other than -EEXIST fails the link.
address_handler_abort(l, r, net, o) ==
    LET a == Check(Check(l, l.rtnl_messages > 0), l.state \in {"SetAddresses", "Failed"})
        b == Dec(a)
    IN  IF b.state = "Failed" THEN b
        ELSE IF r < 0 /\ r # 0 - EEXIST THEN link_enter_failed(Warn(b, TRUE))
        ELSE IF b.rtnl_messages = 0 THEN link_enter_addresses_set(b, net, o) ELSE b

address_handler(l, r, net, o) ==
    LET a == Check(Check(l, l.rtnl_messages > 0), l.state \in {"SetAddresses", "Failed"})
        b == Dec(a)
    IN  IF b.state = "Failed" THEN b
        ELSE LET c == Warn(b, r < 0 /\ r # 0 - EEXIST)
             IN  IF c.rtnl_messages = 0 THEN link_enter_addresses_set(c, net, o) ELSE c

\* Mutant of address_loop: the failed request is counted too.
RECURSIVE address_loop_countfail(_, _, _, _)
address_loop_countfail(l, i, net, o) ==
    IF i > net.addresses THEN l
    ELSE IF i > o.addr THEN link_enter_failed(Inc(Submit(l, "address", FALSE)))
    ELSE address_loop_countfail(Inc(Submit(l, "address", TRUE)), i + 1, net, o)

\* LIST_FOREACH(addresses, ...) of link_enter_set_addresses, from the i-th address on
RECURSIVE address_loop(_, _, _, _)
address_loop(l, i, net, o) ==
    IF i > net.addresses THEN l
    ELSE IF i > o.addr THEN link_enter_failed(Submit(l, "address", FALSE))
    ELSE address_loop(Inc(Submit(l, "address", TRUE)), i + 1, net, o)

\* Mutant of link_enter_set_addresses: with no addresses it waits in SetAddresses.
link_enter_set_addresses_wait(l, net, o) ==
    address_loop(SetState(Check(l, l.rtnl_messages = 0), "SetAddresses"), 1, net, o)

link_enter_set_addresses(l, net, o) ==
    LET a == Check(l, l.rtnl_messages = 0)
    IN  IF net.addresses = 0 THEN link_enter_addresses_set(a, net, o)
        ELSE address_loop(SetState(a, "SetAddresses"), 1, net, o)

\* Mutant of link_handler: the flag is recorded and the link never configured.
link_handler_noadvance(l, r, net, o) == [Warn(l, r < 0) EXCEPT !.up = TRUE]

\* Mutant of link_handler: the link is configured whatever its state.
link_handler_always(l, r, net, o) ==
    link_enter_configured([Warn(l, r < 0) EXCEPT !.up = TRUE])

link_handler(l, r, net, o) ==
    LET a == Warn(l, r < 0)
        b == [a EXCEPT !.up = TRUE]
    IN  IF b.state = "RoutesSet" THEN link_enter_configured(b) ELSE b

link_up(l, o) == Submit(l, "link", o.up)

link_enter_bridge_joined(l, net, o) ==
    LET a == link_up(l, o)
    IN  IF ~o.up THEN link_enter_failed(a)
        ELSE link_enter_set_addresses(SetState(a, "BridgeJoined"), net, o)

\* Mutant of bridge_handler: an error status keeps the link in JoinBridge.
bridge_handler_strict(l, r, net, o) ==
    LET a == Check(l, l.state \in {"JoinBridge", "Failed"})
    IN  IF a.state = "Failed" THEN a
        ELSE IF r < 0 THEN Warn(a, TRUE)
        ELSE link_enter_bridge_joined(a, net, o)

bridge_handler(l, r, net, o) ==
    LET a == Check(l, l.state \in {"JoinBridge", "Failed"})
    IN  IF a.state = "Failed" THEN a
        ELSE link_enter_bridge_joined(Warn(a, r < 0), net, o)

link_enter_join_bridge(l, net, o) ==
    IF ~net.bridge THEN link_enter_bridge_joined(l, net, o)
    ELSE LET a == SetState(l, "JoinBridge")
             b == Submit(a, "bridge", o.bridge)
         IN  IF ~o.bridge THEN link_enter_failed(b) ELSE b

\* every link_enter_* returns 0, so the r < 0 branch of link_configure is never taken
link_configure(l, net, o) == link_enter_join_bridge(l, net, o)

(***************************************************************************)
(* The registry of links                                                   *)
(***************************************************************************)
\* hashmap_get() == NULL
NoLink == [ifindex |-> 0]

\* network_get() == -ENOENT: no .network file matches the device
NoNetwork == [bridge |-> FALSE, addresses |-> 0 - 1, routes |-> 0 - 1]

\* the .network files loaded: one address and one route, with or without a bridge
Networks == [bridge : BOOLEAN, addresses : {1}, routes : {1}]

\* the udev devices that can appear: udev_device_get_ifindex (0 when the device
\* is no network interface) and udev_device_get_devtype
Devices == [ifindex : 0..MaxIfindex, devtype : {"bridge", "wlan"}]

\* The outcomes of what link_add calls for a device: new0, hashmap_put (memory),
\* bridge_set_link, network_get, and the submissions of link_configure. An
\* outcome that the call before it keeps from being asked for is not varied.
AddEnv(device) ==
    {a \in [alloc : BOOLEAN, put : BOOLEAN, bridge_set : {0, 0 - ENOENT, 0 - 5},
            network : Networks \cup {NoNetwork},
            o : [bridge : BOOLEAN, up : BOOLEAN, addr : {0}, route : {0}]] :
        /\ (~a.alloc \/ device.ifindex <= 0) => a.put
        /\ (~a.alloc \/ ~a.put \/ device.ifindex <= 0 \/ device.devtype # "bridge")
               => a.bridge_set = 0
        /\ (~a.alloc \/ ~a.put \/ device.ifindex <= 0 \/ a.bridge_set < 0)
               => a.network = NoNetwork
        /\ (a.network = NoNetwork \/ ~a.network.bridge) => a.o.bridge
        /\ (a.network = NoNetwork \/ a.network.bridge) => a.o.up}

\* hashmap_get(m->links, &ifindex)
hashmap_get(h, key) ==
    IF \E l \in h : l.ifindex = key THEN CHOOSE l \in h : l.ifindex = key ELSE NoLink

\* hashmap_put(m->links, &link->ifindex, link): -EEXIST when the key is held by
\* another object, -ENOMEM when the table cannot grow
hashmap_put(h, key, grows) ==
    IF hashmap_get(h, key) # NoLink THEN 0 - EEXIST
    ELSE IF ~grows THEN 0 - ENOMEM
    ELSE 0

\* hashmap_remove(link->manager->links, &link->ifindex)
hashmap_remove(h, key) == {l \in h : l.ifindex # key}

\* the Link that link_new allocates: new0() zeroes it, state = _LINK_STATE_INVALID
NewLink(ifindex) ==
    [ifindex |-> ifindex, state |-> "Invalid", rtnl_messages |-> 0, up |-> FALSE,
     network |-> NoNetwork, q |-> [k \in Kinds |-> 0]]

\* The working copy a handler of the registered Link e runs on
Work(e) == [state |-> e.state, rtnl_messages |-> e.rtnl_messages, up |-> e.up,
            q |-> e.q, calls |-> <<>>, path |-> <<>>, ok |-> TRUE, warned |-> FALSE]

\* the registered Link e after a handler that ended with the working copy l
Stored(e, l) == [e EXCEPT !.state = l.state, !.rtnl_messages = l.rtnl_messages,
                          !.up = l.up, !.q = l.q]

\* on failure the _cleanup_link_free_ object is freed, and link_free removes
\* the key of the object from the registry
link_new(m, device, a) ==
    IF ~a.alloc THEN [m EXCEPT !.r = 0 - ENOMEM]
    ELSE IF device.ifindex <= 0
    THEN [m EXCEPT !.links = hashmap_remove(@, device.ifindex), !.r = 0 - EINVAL]
    ELSE LET r == hashmap_put(m.links, device.ifindex, a.put)
         IN  IF r < 0
             THEN [m EXCEPT !.links = hashmap_remove(@, device.ifindex), !.r = r]
             ELSE [m EXCEPT !.links = @ \cup {NewLink(device.ifindex)},
                            !.created = @ + 1, !.r = 0]

\* network_apply(m, network, link): link->network = network, then link_configure
network_apply(m, net, ifindex, o) ==
    LET e == hashmap_get(m.links, ifindex)
        l == link_configure(Work(e), net, o)
    IN  [m EXCEPT !.links = (@ \ {e}) \cup {[Stored(e, l) EXCEPT !.network = net]},
                  !.calls = l.calls, !.path = l.path, !.configured = @ + 1, !.r = 0]

\* Mutant of link_add: the registry is not looked up first.
link_add_nolookup(m, device, a) ==
    LET b == link_new(m, device, a)
    IN  IF b.r < 0 THEN b
        ELSE LET r == IF device.devtype = "bridge" THEN a.bridge_set ELSE 0
             IN  IF r < 0 THEN [b EXCEPT !.r = IF r = 0 - ENOENT THEN 0 ELSE r]
                 ELSE IF a.network = NoNetwork THEN [b EXCEPT !.r = 0]
                 ELSE network_apply(b, a.network, device.ifindex, a.o)

link_add(m, device, a) ==
    IF hashmap_get(m.links, device.ifindex) # NoLink THEN [m EXCEPT !.r = 0]
    ELSE LET b == link_new(m, device, a)
         IN  IF b.r < 0 THEN b
             ELSE LET r == IF device.devtype = "bridge" THEN a.bridge_set ELSE 0
                  IN  IF r < 0 THEN [b EXCEPT !.r = IF r = 0 - ENOENT THEN 0 ELSE r]
                      ELSE IF a.network = NoNetwork THEN [b EXCEPT !.r = 0]
                      ELSE network_apply(b, a.network, device.ifindex, a.o)

\* no event on the registry yet
NoEvent == [op |-> "none", device |-> [ifindex |-> 0, devtype |-> ""], r |-> 0, pre |-> {},
            created |-> 0, configured |-> 0, calls |-> <<>>, path |-> <<>>]

(***************************************************************************)
(* The link as a state machine                                             *)
(***************************************************************************)
\* The working copy a handler runs on: the Link, the transport queue and an
\* empty record of what this handler does.
Begin == [state |-> link.state, rtnl_messages |-> link.rtnl_messages, up |-> link.up,
          q |-> rtnl, calls |-> <<>>, path |-> <<>>, ok |-> TRUE, warned |-> FALSE]

\* Store the handler's result back.
Commit(op, r, l) ==
    /\ link' = [state |-> l.state, rtnl_messages |-> l.rtnl_messages, up |-> l.up]
    /\ rtnl' = l.q
    /\ step' = [op |-> op, r |-> r, pre |-> link, pre_q |-> rtnl, calls |-> l.calls, path |-> l.path,
                ok |-> l.ok, warned |-> l.warned]
    /\ hist' = [statuses |-> IF op \in {"address", "route"}
                             THEN hist.statuses \cup {r} ELSE hist.statuses,
                drained  |-> IF op \in {"address", "route"} /\ link.state = "Failed"
                             THEN hist.drained + 1 ELSE hist.drained]
    /\ UNCHANGED network
    /\ UNCHANGED <<links, added>>
    /\ UNCHANGED busvars

\* link_new: state = _LINK_STATE_INVALID, everything else zeroed by new0();
\* network_get picks the Network that network_apply then configures.
LinkInit ==
    /\ link = [state |-> "Invalid", rtnl_messages |-> 0, up |-> FALSE]
    /\ network \in [bridge : BOOLEAN, addresses : 0..MaxAddresses, routes : 0..MaxRoutes]
    /\ rtnl = [k \in Kinds |-> 0]
    /\ step = [op |-> "new", r |-> 0, pre |-> link, pre_q |-> rtnl, calls |-> <<>>, path |-> <<>>,
               ok |-> TRUE, warned |-> FALSE]
    /\ hist = [statuses |-> {}, drained |-> 0]
    /\ links = {}
    /\ added = NoEvent

\* link_add -> network_apply -> link_configure, once per link (link_add returns
\* early when the ifindex is already in the registry)
LinkConfigure ==
    /\ link.state = "Invalid"
    /\ \E o \in Oracles(network) :
         Commit("configure", 0, link_configure(Begin, network, o))

\* The event loop dispatches one completion of bridge_join
BridgeDone ==
    /\ rtnl["bridge"] > 0
    /\ \E r \in Status, o \in Oracles(network) :
         Commit("bridge", r,
                bridge_handler([Begin EXCEPT !.q["bridge"] = @ - 1], r, network, o))

\* The event loop dispatches the completion of link_up
LinkUpDone ==
    /\ rtnl["link"] > 0
    /\ \E r \in Status, o \in Oracles(network) :
         Commit("link", r,
                link_handler([Begin EXCEPT !.q["link"] = @ - 1], r, network, o))

\* The event loop dispatches one completion of address_configure
AddressDone ==
    /\ rtnl["address"] > 0
    /\ \E r \in Status, o \in Oracles(network) :
         Commit("address", r,
                address_handler([Begin EXCEPT !.q["address"] = @ - 1], r, network, o))

\* The event loop dispatches one completion of route_configure
RouteDone ==
    /\ rtnl["route"] > 0
    /\ \E r \in Status, o \in Oracles(network) :
         Commit("route", r,
                route_handler([Begin EXCEPT !.q["route"] = @ - 1], r, network, o))

Dispatch == BridgeDone \/ LinkUpDone \/ AddressDone \/ RouteDone

vars == <<link, network, rtnl, step, hist, n, phase, lines, fds, kfds, bstep, links, added>>

(***************************************************************************)
(* busname.c                                                               *)
(***************************************************************************)
\* enum BusNameState, in the order of its constants
BusNameState == <<"BUSNAME_DEAD", "BUSNAME_LISTENING", "BUSNAME_RUNNING", "BUSNAME_FAILED">>

\* enum BusNameResult, in the order of its constants
BusNameResult == <<"BUSNAME_SUCCESS", "BUSNAME_FAILURE_RESOURCES",
                   "BUSNAME_FAILURE_SERVICE_FAILED_PERMANENT">>

\* enum ServiceState, in the order of its constants
ServiceState == <<"SERVICE_DEAD", "SERVICE_START_PRE", "SERVICE_START", "SERVICE_START_POST",
                  "SERVICE_RUNNING", "SERVICE_EXITED", "SERVICE_RELOAD", "SERVICE_STOP",
                  "SERVICE_STOP_SIGTERM", "SERVICE_STOP_SIGKILL", "SERVICE_STOP_POST",
                  "SERVICE_FINAL_SIGTERM", "SERVICE_FINAL_SIGKILL", "SERVICE_FAILED",
                  "SERVICE_AUTO_RESTART">>

Range(seq) == {seq[i] : i \in DOMAIN seq}

\* the integer value of an enum constant
EnumValue(enum, c) == (CHOOSE i \in DOMAIN enum : enum[i] = c) - 1

\* a NULL string, and how "%s" prints it
NULL == "(null)"

\* Mutant of state_translation_table: Running is reported as activating.
state_translation_table_activating(state) ==
    CASE state = "BUSNAME_DEAD"      -> "UNIT_INACTIVE"
      [] state = "BUSNAME_LISTENING" -> "UNIT_ACTIVE"
      [] state = "BUSNAME_RUNNING"   -> "UNIT_ACTIVATING"
      [] state = "BUSNAME_FAILED"    -> "UNIT_FAILED"

state_translation_table(state) ==
    CASE state = "BUSNAME_DEAD"      -> "UNIT_INACTIVE"
      [] state = "BUSNAME_LISTENING" -> "UNIT_ACTIVE"
      [] state = "BUSNAME_RUNNING"   -> "UNIT_ACTIVE"
      [] state = "BUSNAME_FAILED"    -> "UNIT_FAILED"

busname_state_table(state) ==
    CASE state = "BUSNAME_DEAD"      -> "dead"
      [] state = "BUSNAME_LISTENING" -> "listening"
      [] state = "BUSNAME_RUNNING"   -> "running"
      [] state = "BUSNAME_FAILED"    -> "failed"

\* the table has no entry for BUSNAME_FAILURE_SERVICE_FAILED_PERMANENT
busname_result_table(result) ==
    CASE result = "BUSNAME_SUCCESS"           -> "success"
      [] result = "BUSNAME_FAILURE_RESOURCES" -> "resources"
      [] OTHER                                -> NULL

\* DEFINE_STRING_TABLE_LOOKUP(busname_state, BusNameState)
busname_state_to_string(state) == busname_state_table(state)

\* the constant whose name is s, or "" (a negative value) when there is none
busname_state_from_string(s) ==
    IF \E c \in Range(BusNameState) : busname_state_table(c) # NULL /\ busname_state_table(c) = s
    THEN CHOOSE c \in Range(BusNameState) : busname_state_table(c) = s
    ELSE ""

\* DEFINE_STRING_TABLE_LOOKUP(busname_result, BusNameResult)
busname_result_to_string(result) == busname_result_table(result)

busname_result_from_string(s) ==
    IF \E c \in Range(BusNameResult) : busname_result_table(c) # NULL /\ busname_result_table(c) = s
    THEN CHOOSE c \in Range(BusNameResult) : busname_result_table(c) = s
    ELSE ""

\* the descriptor numbers of the process
Fd == 0..MaxFd

\* "%i" of a descriptor number
FormatInt(i) == ToString(i)

\* safe_atoi(value, &fd): the number written in value, or -EINVAL when value is
\* not the decimal form of a descriptor number
safe_atoi(value) ==
    IF \E i \in Fd : ToString(i) = value THEN CHOOSE i \in Fd : ToString(i) = value
    ELSE 0 - 22

NoSource == [some |-> FALSE, fd |-> 0 - 1, enabled |-> FALSE]

\* one thing an operation did to the world outside the BusName object
Event(ev, fd, old, new) == [ev |-> ev, fd |-> fd, old |-> old, new |-> new]

Log(b, ev, fd, old, new) == [b EXCEPT !.log = Append(@, Event(ev, fd, old, new))]

\* What the environment answers during one operation:
\*   create   bus_kernel_create_starter: a free descriptor or a negative errno
\*   add_io   sd_event_add_io succeeds
\*   enable   sd_event_source_set_enabled(SD_EVENT_ON) succeeds
\*   dup      fdset_put_dup: a free descriptor or a negative errno
\*   stop_pending unit_stop_pending(UNIT(n))
\*   pending  some unit of UNIT_TRIGGERS is active or pending
\*   add_job  manager_add_job succeeds
\* Each operation is given only the answers it can ask for.
Env(create, watch, dup, run) ==
    [create : create, add_io : watch, enable : watch, dup : dup,
     stop_pending : run, pending : run, add_job : run]

\* assert(c)
BCheck(b, c) == [b EXCEPT !.ok = @ /\ c]

\* close_nointr_nofail(fd)
Close(b, fd) == Log([b EXCEPT !.kfds = @ \ {fd}], "close", fd, "", "")

\* busname_init, on the zeroed object: state BUSNAME_DEAD (0), deserialized_state
\* BUSNAME_DEAD (0), result BUSNAME_SUCCESS (0), no event source
busname_init == [state |-> BusNameState[1], deserialized_state |-> BusNameState[1],
                 result |-> BusNameResult[1], starter_fd |-> 0 - 1, event_source |-> NoSource]

\* Mutant of busname_done: descriptor 0 is taken for no descriptor.
busname_done_positive(b) ==
    LET a == Log([b EXCEPT !.event_source = NoSource], "unref", b.event_source.fd, "", "")
    IN  IF a.starter_fd > 0
        THEN [Close(a, a.starter_fd) EXCEPT !.starter_fd = 0 - 1]
        ELSE a

busname_done(b) ==
    LET a == Log([b EXCEPT !.event_source = NoSource], "unref", b.event_source.fd, "", "")
    IN  IF a.starter_fd >= 0
        THEN [Close(a, a.starter_fd) EXCEPT !.starter_fd = 0 - 1]
        ELSE a

busname_unwatch_fd(b) ==
    IF b.event_source.some
    THEN Log([b EXCEPT !.event_source.enabled = FALSE], "off", b.event_source.fd, "", "")
    ELSE b

busname_close_fd(b) ==
    IF b.starter_fd <= 0 THEN b
    ELSE [Close(b, b.starter_fd) EXCEPT !.starter_fd = 0 - 1]

\* Mutant of busname_watch_fd: a new event source is registered every time.
busname_watch_fd_addalways(b, e) ==
    IF b.starter_fd < 0 THEN [b EXCEPT !.r = 0]
    ELSE LET a == IF e.add_io
                  THEN Log([b EXCEPT !.event_source =
                                [some |-> TRUE, fd |-> b.starter_fd, enabled |-> TRUE],
                              !.r = 0],
                           "add_io", b.starter_fd, "", "")
                  ELSE [b EXCEPT !.r = 0 - 1]
         IN  IF a.r < 0 THEN busname_unwatch_fd(a) ELSE a

\* the result is in field r
busname_watch_fd(b, e) ==
    IF b.starter_fd < 0 THEN [b EXCEPT !.r = 0]
    ELSE LET a == IF b.event_source.some
                  THEN IF e.enable
                       THEN Log([b EXCEPT !.event_source.enabled = TRUE, !.r = 0],
                                "on", b.event_source.fd, "", "")
                       ELSE [b EXCEPT !.r = 0 - 1]
                  ELSE IF e.add_io
                       THEN Log([b EXCEPT !.event_source =
                                     [some |-> TRUE, fd |-> b.starter_fd, enabled |-> TRUE],
                                   !.r = 0],
                                "add_io", b.starter_fd, "", "")
                       ELSE [b EXCEPT !.r = 0 - 1]
         IN  IF a.r < 0 THEN busname_unwatch_fd(a) ELSE a

\* Mutant of busname_open_fd: a descriptor is created even when one is held.
busname_open_fd_always(b, e) ==
    LET a == [b EXCEPT !.starter_fd = e.create]
    IN  IF a.starter_fd < 0 THEN [a EXCEPT !.r = a.starter_fd]
        ELSE Log([a EXCEPT !.kfds = @ \cup {a.starter_fd}, !.r = 0],
                 "create", a.starter_fd, "", "")

\* the result is in field r
busname_open_fd(b, e) ==
    IF b.starter_fd >= 0 THEN [b EXCEPT !.r = 0]
    ELSE LET a == [b EXCEPT !.starter_fd = e.create]
         IN  IF a.starter_fd < 0 THEN [a EXCEPT !.r = a.starter_fd]
             ELSE Log([a EXCEPT !.kfds = @ \cup {a.starter_fd}, !.r = 0],
                      "create", a.starter_fd, "", "")

\* Mutant of busname_set_state: the watch is left as it is.
busname_set_state_nounwatch(b, state) ==
    LET old_state == b.state
        a == [b EXCEPT !.state = state]
        d == IF state \notin {"BUSNAME_LISTENING", "BUSNAME_RUNNING"}
             THEN busname_close_fd(a) ELSE a
    IN  Log(d, "notify", 0 - 1, state_translation_table(old_state),
            state_translation_table(state))

busname_set_state(b, state) ==
    LET old_state == b.state
        a == [b EXCEPT !.state = state]
        c == IF state # "BUSNAME_LISTENING" THEN busname_unwatch_fd(a) ELSE a
        d == IF state \notin {"BUSNAME_LISTENING", "BUSNAME_RUNNING"}
             THEN busname_close_fd(c) ELSE c
    IN  Log(d, "notify", 0 - 1, state_translation_table(old_state),
            state_translation_table(state))

\* Mutant of busname_coldplug: the restored state is applied even when it is the
\* current one.
busname_coldplug_always(b, e) ==
    LET a == BCheck(b, b.state = "BUSNAME_DEAD")
        c == IF a.deserialized_state \in {"BUSNAME_LISTENING", "BUSNAME_RUNNING"}
             THEN busname_open_fd(a, e) ELSE [a EXCEPT !.r = 0]
    IN  IF c.r < 0 THEN c
        ELSE LET d == IF c.deserialized_state = "BUSNAME_LISTENING"
                      THEN busname_watch_fd(c, e) ELSE c
             IN  IF d.r < 0 THEN d
                 ELSE [busname_set_state(d, d.deserialized_state) EXCEPT !.r = 0]

\* the result is in field r
busname_coldplug(b, e) ==
    LET a == BCheck(b, b.state = "BUSNAME_DEAD")
    IN  IF a.deserialized_state = a.state THEN [a EXCEPT !.r = 0]
        ELSE LET c == IF a.deserialized_state \in {"BUSNAME_LISTENING", "BUSNAME_RUNNING"}
                      THEN busname_open_fd(a, e) ELSE [a EXCEPT !.r = 0]
             IN  IF c.r < 0 THEN c
                 ELSE LET d == IF c.deserialized_state = "BUSNAME_LISTENING"
                               THEN busname_watch_fd(c, e) ELSE c
                      IN  IF d.r < 0 THEN d
                          ELSE [busname_set_state(d, d.deserialized_state) EXCEPT !.r = 0]

\* Mutant of busname_enter_dead: the result is stored whatever it is.
busname_enter_dead_overwrite(b, f) ==
    LET a == [b EXCEPT !.result = f]
    IN  busname_set_state(a, IF a.result # "BUSNAME_SUCCESS"
                             THEN "BUSNAME_FAILED" ELSE "BUSNAME_DEAD")

busname_enter_dead(b, f) ==
    LET a == IF f # "BUSNAME_SUCCESS" THEN [b EXCEPT !.result = f] ELSE b
    IN  busname_set_state(a, IF a.result # "BUSNAME_SUCCESS"
                             THEN "BUSNAME_FAILED" ELSE "BUSNAME_DEAD")

busname_enter_listening(b, e) ==
    LET a == busname_open_fd(b, e)
    IN  IF a.r < 0 THEN busname_enter_dead(a, "BUSNAME_FAILURE_RESOURCES")
        ELSE LET c == busname_watch_fd(a, e)
             IN  IF c.r < 0 THEN busname_enter_dead(c, "BUSNAME_FAILURE_RESOURCES")
                 ELSE busname_set_state(c, "BUSNAME_LISTENING")

\* Mutant of busname_enter_running: a scheduled stop is not looked at.
busname_enter_running_nosuppress(b, e) ==
    IF ~e.pending
    THEN IF e.add_job
         THEN busname_set_state(Log(b, "job", 0 - 1, "", ""), "BUSNAME_RUNNING")
         ELSE busname_enter_dead(Log(b, "job_failed", 0 - 1, "", ""),
                                 "BUSNAME_FAILURE_RESOURCES")
    ELSE busname_set_state(b, "BUSNAME_RUNNING")

\* Mutant of busname_enter_running: the start job is queued whatever is pending.
busname_enter_running_alwaysjob(b, e) ==
    IF e.stop_pending THEN b
    ELSE IF e.add_job
         THEN busname_set_state(Log(b, "job", 0 - 1, "", ""), "BUSNAME_RUNNING")
         ELSE busname_enter_dead(Log(b, "job_failed", 0 - 1, "", ""),
                                 "BUSNAME_FAILURE_RESOURCES")

busname_enter_running(b, e) ==
    IF e.stop_pending THEN b
    ELSE IF ~e.pending
         THEN IF e.add_job
              THEN busname_set_state(Log(b, "job", 0 - 1, "", ""), "BUSNAME_RUNNING")
              ELSE busname_enter_dead(Log(b, "job_failed", 0 - 1, "", ""),
                                      "BUSNAME_FAILURE_RESOURCES")
         ELSE busname_set_state(b, "BUSNAME_RUNNING")

\* Mutant of busname_start: the load state of the service is not looked at.
busname_start_nocheck(b, service_set, loaded, e) ==
    LET a == BCheck(b, b.state \in {"BUSNAME_DEAD", "BUSNAME_FAILED"})
        c == [a EXCEPT !.result = "BUSNAME_SUCCESS"]
    IN  [busname_enter_listening(c, e) EXCEPT !.r = 0]

\* service_set: UNIT_ISSET(n->service); loaded: its load_state is UNIT_LOADED
busname_start(b, service_set, loaded, e) ==
    IF service_set /\ ~loaded THEN [b EXCEPT !.r = 0 - 2]
    ELSE LET a == BCheck(b, b.state \in {"BUSNAME_DEAD", "BUSNAME_FAILED"})
             c == [a EXCEPT !.result = "BUSNAME_SUCCESS"]
         IN  [busname_enter_listening(c, e) EXCEPT !.r = 0]

busname_stop(b) ==
    LET a == BCheck(b, b.state \in {"BUSNAME_LISTENING", "BUSNAME_RUNNING"})
    IN  [busname_enter_dead(a, "BUSNAME_SUCCESS") EXCEPT !.r = 0]

\* unit_serialize_item(u, f, key, value)
Item(key, value) == [key |-> key, value |-> value]

\* Mutant of busname_serialize: the number written is the one of starter_fd, not
\* the one of its copy in the FDSet.
busname_serialize_origfd(b, e) ==
    LET a == [b EXCEPT !.out = {Item("state", busname_state_to_string(b.state)),
                                Item("result", busname_result_to_string(b.result))}]
    IN  IF a.starter_fd >= 0
        THEN LET copy == e.dup
             IN  IF copy < 0 THEN [a EXCEPT !.r = copy]
                 ELSE [a EXCEPT !.out = @ \cup {Item("starter-fd", FormatInt(a.starter_fd))},
                                !.fds = @ \cup {copy},
                                !.kfds = @ \cup {copy},
                                !.r = 0]
        ELSE [a EXCEPT !.r = 0]

\* the items written are in field out, the FDSet in field fds
busname_serialize(b, e) ==
    LET a == [b EXCEPT !.out = {Item("state", busname_state_to_string(b.state)),
                                Item("result", busname_result_to_string(b.result))}]
    IN  IF a.starter_fd >= 0
        THEN LET copy == e.dup
             IN  IF copy < 0 THEN [a EXCEPT !.r = copy]
                 ELSE [a EXCEPT !.out = @ \cup {Item("starter-fd", FormatInt(copy))},
                                !.fds = @ \cup {copy},
                                !.kfds = @ \cup {copy},
                                !.r = 0]
        ELSE [a EXCEPT !.r = 0]

\* Mutant of busname_deserialize_item: the descriptor held is not closed when
\* another one is adopted.
busname_deserialize_item_noclose(b, key, value) ==
    IF key = "state"
    THEN LET state == busname_state_from_string(value)
         IN  IF state = "" THEN b ELSE [b EXCEPT !.deserialized_state = state]
    ELSE IF key = "result"
    THEN LET f == busname_result_from_string(value)
         IN  IF f = "" THEN b
             ELSE IF f # "BUSNAME_SUCCESS" THEN [b EXCEPT !.result = f]
             ELSE b
    ELSE IF key = "starter-fd"
    THEN LET fd == safe_atoi(value)
         IN  IF fd < 0 \/ fd \notin b.fds THEN b
             ELSE [b EXCEPT !.starter_fd = fd, !.fds = @ \ {fd}]
    ELSE b

\* Mutant of busname_deserialize_item: a descriptor is adopted only once a state
\* other than dead was read.
busname_deserialize_item_statefirst(b, key, value) ==
    IF key = "state"
    THEN LET state == busname_state_from_string(value)
         IN  IF state = "" THEN b ELSE [b EXCEPT !.deserialized_state = state]
    ELSE IF key = "result"
    THEN LET f == busname_result_from_string(value)
         IN  IF f = "" THEN b
             ELSE IF f # "BUSNAME_SUCCESS" THEN [b EXCEPT !.result = f]
             ELSE b
    ELSE IF key = "starter-fd"
    THEN LET fd == safe_atoi(value)
         IN  IF fd < 0 \/ fd \notin b.fds \/ b.deserialized_state = "BUSNAME_DEAD" THEN b
             ELSE LET a == IF b.starter_fd >= 0 THEN Close(b, b.starter_fd) ELSE b
                  IN  [a EXCEPT !.starter_fd = fd, !.fds = @ \ {fd}]
    ELSE b

\* Mutant of busname_deserialize_item: the FDSet is not asked whether it holds
\* the descriptor.
busname_deserialize_item_nocontains(b, key, value) ==
    IF key = "state"
    THEN LET state == busname_state_from_string(value)
         IN  IF state = "" THEN b ELSE [b EXCEPT !.deserialized_state = state]
    ELSE IF key = "result"
    THEN LET f == busname_result_from_string(value)
         IN  IF f = "" THEN b
             ELSE IF f # "BUSNAME_SUCCESS" THEN [b EXCEPT !.result = f]
             ELSE b
    ELSE IF key = "starter-fd"
    THEN LET fd == safe_atoi(value)
         IN  IF fd < 0 THEN b
             ELSE LET a == IF b.starter_fd >= 0 THEN Close(b, b.starter_fd) ELSE b
                  IN  [a EXCEPT !.starter_fd = fd, !.fds = @ \ {fd}]
    ELSE b

busname_deserialize_item(b, key, value) ==
    IF key = "state"
    THEN LET state == busname_state_from_string(value)
         IN  IF state = "" THEN b ELSE [b EXCEPT !.deserialized_state = state]
    ELSE IF key = "result"
    THEN LET f == busname_result_from_string(value)
         IN  IF f = "" THEN b
             ELSE IF f # "BUSNAME_SUCCESS" THEN [b EXCEPT !.result = f]
             ELSE b
    ELSE IF key = "starter-fd"
    THEN LET fd == safe_atoi(value)
         IN  IF fd < 0 \/ fd \notin b.fds THEN b
             ELSE LET a == IF b.starter_fd >= 0 THEN Close(b, b.starter_fd) ELSE b
                  IN  [a EXCEPT !.starter_fd = fd, !.fds = @ \ {fd}]
    ELSE b

busname_active_state(b) == state_translation_table(b.state)

\* EPOLLIN and the other poll events
Revents == {"EPOLLIN", "EPOLLHUP"}

\* Mutant of busname_dispatch_io: the state is not looked at.
busname_dispatch_io_anystate(b, fd, revents, e) ==
    LET a == BCheck(b, fd >= 0)
    IN  IF revents # "EPOLLIN" THEN busname_enter_dead(a, "BUSNAME_FAILURE_RESOURCES")
        ELSE busname_enter_running(a, e)

busname_dispatch_io(b, fd, revents, e) ==
    LET a == BCheck(b, fd >= 0)
    IN  IF a.state # "BUSNAME_LISTENING" THEN a
        ELSE IF revents # "EPOLLIN" THEN busname_enter_dead(a, "BUSNAME_FAILURE_RESOURCES")
        ELSE busname_enter_running(a, e)

\* Mutant of busname_reset_failed: the result is kept.
busname_reset_failed_keepresult(b) ==
    IF b.state = "BUSNAME_FAILED" THEN busname_set_state(b, "BUSNAME_DEAD") ELSE b

\* Mutant of busname_reset_failed: the state is set to Dead whatever it is.
busname_reset_failed_always(b) ==
    [busname_set_state(b, "BUSNAME_DEAD") EXCEPT !.result = "BUSNAME_SUCCESS"]

busname_reset_failed(b) ==
    LET a == IF b.state = "BUSNAME_FAILED" THEN busname_set_state(b, "BUSNAME_DEAD") ELSE b
    IN  [a EXCEPT !.result = "BUSNAME_SUCCESS"]

\* the other unit of trigger_notify: is it a loaded service, and its state and result
Others ==
    [loaded : {TRUE}, service : {TRUE}, state : Range(ServiceState), start_limit : BOOLEAN]
    \cup [loaded : {FALSE}, service : {TRUE}, state : {"SERVICE_FAILED"}, start_limit : {FALSE}]
    \cup [loaded : {TRUE}, service : {FALSE}, state : {"SERVICE_FAILED"}, start_limit : {FALSE}]

\* IN_SET(n->state, SERVICE_DEAD, SERVICE_STOP, ...): the bus-name state is
\* compared, as an integer, with constants of enum ServiceState
InServiceStopSet(state) ==
    EnumValue(BusNameState, state) \in
        {EnumValue(ServiceState, c) : c \in
            {"SERVICE_DEAD", "SERVICE_STOP", "SERVICE_STOP_SIGTERM", "SERVICE_STOP_SIGKILL",
             "SERVICE_STOP_POST", "SERVICE_FINAL_SIGTERM", "SERVICE_FINAL_SIGKILL",
             "SERVICE_AUTO_RESTART"}}

\* Mutant of busname_trigger_notify: a failed service never re-arms the bus-name.
busname_trigger_notify_norearm(b, other, e) ==
    IF b.state \notin {"BUSNAME_RUNNING", "BUSNAME_LISTENING"} THEN b
    ELSE IF ~other.loaded \/ ~other.service THEN b
    ELSE LET a == IF other.state = "SERVICE_FAILED" /\ other.start_limit
                  THEN busname_enter_dead(b, "BUSNAME_FAILURE_SERVICE_FAILED_PERMANENT")
                  ELSE b
         IN  IF InServiceStopSet(a.state) THEN busname_enter_listening(a, e) ELSE a

busname_trigger_notify(b, other, e) ==
    IF b.state \notin {"BUSNAME_RUNNING", "BUSNAME_LISTENING"} THEN b
    ELSE IF ~other.loaded \/ ~other.service THEN b
    ELSE LET a == IF other.state = "SERVICE_FAILED"
                  THEN IF other.start_limit
                       THEN busname_enter_dead(b, "BUSNAME_FAILURE_SERVICE_FAILED_PERMANENT")
                       ELSE busname_enter_listening(b, e)
                  ELSE b
         IN  IF InServiceStopSet(a.state) THEN busname_enter_listening(a, e) ELSE a

(***************************************************************************)
(* The bus-name as a state machine                                         *)
(***************************************************************************)
\* The working copy an operation runs on: the BusName, the descriptors, and an
\* empty record of what the operation does.
BBegin == [state |-> n.state, deserialized_state |-> n.deserialized_state,
           result |-> n.result, starter_fd |-> n.starter_fd,
           event_source |-> n.event_source,
           fds |-> fds, kfds |-> kfds, out |-> {}, r |-> 0, log |-> <<>>, ok |-> TRUE]

Object(b) == [state |-> b.state, deserialized_state |-> b.deserialized_state,
              result |-> b.result, starter_fd |-> b.starter_fd,
              event_source |-> b.event_source]

\* Store the operation's result back.
BCommit(op, b) ==
    /\ n' = Object(b)
    /\ fds' = b.fds
    /\ kfds' = b.kfds
    /\ bstep' = [op |-> op, pre |-> n, r |-> b.r, log |-> b.log, ok |-> b.ok]

\* the descriptors that are not open, which the kernel may give out next
Free == Fd \ kfds

\* for the operations that may open and watch the starter descriptor
EnvListen == Env(Free \cup {0 - 1, 0 - 12}, BOOLEAN, {0 - 24}, {FALSE})

\* for the activation event
EnvRun == Env({0 - 1}, {TRUE}, {0 - 24}, BOOLEAN)

\* for serialization
EnvDup == Env({0 - 1}, {TRUE}, Free \cup {0 - 24}, {FALSE})

\* A unit fresh from busname_init, before the manager coldplugs it.
BusInit ==
    /\ n = busname_init
    /\ phase = "restore"
    /\ lines = {}
    /\ fds = {}
    /\ kfds = {}
    /\ bstep = [op |-> "init", pre |-> busname_init, r |-> 0, log |-> <<>>, ok |-> TRUE]

\* The manager hands one serialized item to the unit (in any order).
BusDeserializeItem ==
    /\ phase = "restore"
    /\ \E item \in lines :
         /\ lines' = lines \ {item}
         /\ BCommit("deserialize_item",
                    busname_deserialize_item(Log(BBegin, "line", 0 - 1, item.key, item.value),
                                             item.key, item.value))
    /\ UNCHANGED phase

\* The manager coldplugs the unit once every item was read, and closes the
\* descriptors left in the FDSet.
BusColdplug ==
    /\ phase = "restore"
    /\ lines = {}
    /\ \E e \in EnvListen :
         LET b == busname_coldplug(BBegin, e)
         IN  BCommit("coldplug", [b EXCEPT !.kfds = @ \ b.fds, !.fds = {}])
    /\ phase' = "live"
    /\ UNCHANGED lines

\* unit_start calls the start method of a unit that is not active
BusStart ==
    /\ phase = "live"
    /\ n.state \in {"BUSNAME_DEAD", "BUSNAME_FAILED"}
    /\ \E service_set, loaded \in BOOLEAN, e \in EnvListen :
         BCommit("start", busname_start(BBegin, service_set, loaded, e))
    /\ UNCHANGED <<phase, lines>>

\* unit_stop calls the stop method of a unit that is active
BusStop ==
    /\ phase = "live"
    /\ n.state \in {"BUSNAME_LISTENING", "BUSNAME_RUNNING"}
    /\ BCommit("stop", busname_stop(BBegin))
    /\ UNCHANGED <<phase, lines>>

\* The event loop dispatches the enabled event source of the unit.
BusDispatchIO ==
    /\ phase = "live"
    /\ n.event_source.some
    /\ n.event_source.enabled
    /\ \E revents \in Revents, e \in EnvRun :
         BCommit("dispatch_io", busname_dispatch_io(BBegin, n.event_source.fd, revents, e))
    /\ UNCHANGED <<phase, lines>>

\* A unit this one triggers changed state.
BusTriggerNotify ==
    /\ phase = "live"
    /\ \E other \in Others, e \in EnvListen :
         BCommit("trigger_notify", busname_trigger_notify(BBegin, other, e))
    /\ UNCHANGED <<phase, lines>>

BusResetFailed ==
    /\ phase = "live"
    /\ BCommit("reset_failed", busname_reset_failed(BBegin))
    /\ UNCHANGED <<phase, lines>>

\* The manager serializes the unit for a reload or re-execution; when that fails
\* the reload is given up.
BusSerialize ==
    /\ phase = "live"
    /\ \E e \in EnvDup :
         LET b == busname_serialize(BBegin, e)
         IN  /\ BCommit("serialize", b)
             /\ phase' = IF b.r < 0 THEN "live" ELSE "serialized"
             /\ lines' = IF b.r < 0 THEN {} ELSE b.out

\* The manager frees the unit: for the reload, or because it is unloaded.
BusDone ==
    /\ phase \in {"live", "serialized"}
    /\ BCommit("done", busname_done(BBegin))
    /\ phase' = IF phase = "serialized" THEN "freed" ELSE "gone"
    /\ UNCHANGED lines

\* The manager loads the unit again after the reload.
BusLoad ==
    /\ phase = "freed"
    /\ BCommit("init", [BBegin EXCEPT !.state = busname_init.state,
                                      !.deserialized_state = busname_init.deserialized_state,
                                      !.result = busname_init.result,
                                      !.starter_fd = busname_init.starter_fd,
                                      !.event_source = busname_init.event_source])
    /\ phase' = "restore"
    /\ UNCHANGED lines

BusNext ==
    \/ (BusDeserializeItem /\ UNCHANGED linkvars)
    \/ (BusColdplug /\ UNCHANGED linkvars)
    \/ (BusStart /\ UNCHANGED linkvars)
    \/ (BusStop /\ UNCHANGED linkvars)
    \/ (BusDispatchIO /\ UNCHANGED linkvars)
    \/ (BusTriggerNotify /\ UNCHANGED linkvars)
    \/ (BusResetFailed /\ UNCHANGED linkvars)
    \/ (BusSerialize /\ UNCHANGED linkvars)
    \/ (BusDone /\ UNCHANGED linkvars)
    \/ (BusLoad /\ UNCHANGED linkvars)

\* no device: the link part stays as link_new would leave it
LinkIdle ==
    /\ LinkInit
    /\ network = [bridge |-> FALSE, addresses |-> 0, routes |-> 0]

BusSpecInit == BusInit /\ LinkIdle

\* The bus-name unit: loaded, coldplugged, operated, reloaded.
BusSpec == BusSpecInit /\ [][BusNext]_vars

\* The lines a serialization may hold for a bus-name unit: what busname_serialize
\* writes, and what it never writes (a name of no state or result, a descriptor
\* that is no number or negative, a key of another version).
RestoreItems ==
    {Item("state", v) : v \in {"dead", "listening", "running", "failed", "waiting"}}
    \cup {Item("result", v) : v \in {"success", "resources", NULL}}
    \cup {Item("starter-fd", v) : v \in {FormatInt(i) : i \in Fd} \cup {"-1", "x"}}
    \cup {Item("control-pid", "1")}

\* the orders in which the lines of a serialization can be read
Perms(S) ==
    {p \in [1..Cardinality(S) -> S] : \A i, j \in DOMAIN p : p[i] = p[j] => i = j}

RECURSIVE DeserializeAll(_, _)
\* every line of p handed to busname_deserialize_item in turn
DeserializeAll(b, p) ==
    IF p = <<>> THEN b
    ELSE DeserializeAll(busname_deserialize_item(b, Head(p).key, Head(p).value), Tail(p))

\* a new instance in place of the freed one: the object as busname_init leaves
\* it, the descriptors as they are
Fresh(b) ==
    [b EXCEPT !.state = busname_init.state,
              !.deserialized_state = busname_init.deserialized_state,
              !.result = busname_init.result,
              !.starter_fd = busname_init.starter_fd,
              !.event_source = busname_init.event_source,
              !.out = {}, !.r = 0, !.log = <<>>]

\* the restore of a fresh instance: the lines p in that order, then coldplug
Restore(b, p, e) == busname_coldplug(DeserializeAll(Fresh(b), p), e)

\* A unit fresh from busname_init is about to be restored from any such lines and
\* any FDSet.
RestoreInit ==
    /\ n = busname_init
    /\ phase = "restore"
    /\ lines \in {L \in SUBSET RestoreItems : Cardinality(L) <= MaxLines}
    /\ fds \in SUBSET Fd
    /\ kfds = fds
    /\ bstep = [op |-> "init", pre |-> busname_init, r |-> 0, log |-> <<>>, ok |-> TRUE]

RestoreSpecInit == RestoreInit /\ LinkIdle

RestoreNext ==
    \/ (BusDeserializeItem /\ UNCHANGED linkvars)
    \/ (BusColdplug /\ UNCHANGED linkvars)

\* The restore of a bus-name unit: every line is handed to the unit, in any
\* order, and the unit is coldplugged.
RestoreSpec == RestoreSpecInit /\ [][RestoreNext]_vars

LiveNext ==
    \/ (BusColdplug /\ UNCHANGED linkvars)
    \/ (BusStart /\ UNCHANGED linkvars)
    \/ (BusStop /\ UNCHANGED linkvars)
    \/ (BusDispatchIO /\ UNCHANGED linkvars)
    \/ (BusTriggerNotify /\ UNCHANGED linkvars)
    \/ (BusResetFailed /\ UNCHANGED linkvars)

\* The bus-name unit of a manager that is never reloaded: loaded, coldplugged
\* with nothing to restore, then started, stopped, activated, notified, reset.
LiveSpec == BusSpecInit /\ [][LiveNext]_vars

\* The manager receives the device-appeared event of a device
LinkAdd ==
    \E device \in Devices : \E a \in AddEnv(device) :
        LET m == link_add([links |-> links, created |-> 0, configured |-> 0,
                           calls |-> <<>>, path |-> <<>>, r |-> 0], device, a)
        IN  /\ links' = m.links
            /\ added' = [op |-> "add", device |-> device, r |-> m.r, pre |-> links,
                         created |-> m.created, configured |-> m.configured,
                         calls |-> m.calls, path |-> m.path]
            /\ UNCHANGED <<link, network, rtnl, step, hist>>
            /\ UNCHANGED busvars

\* the completion handler of a request of kind k
Handler(k, l, r, net, o) ==
    CASE k = "bridge"  -> bridge_handler(l, r, net, o)
      [] k = "link"    -> link_handler(l, r, net, o)
      [] k = "address" -> address_handler(l, r, net, o)
      [] k = "route"   -> route_handler(l, r, net, o)

\* The outcomes of the submissions the handler of a request of kind k can make:
\* a handler submits requests of the later stages only, and route_handler none.
HandlerEnv(k, net) ==
    {o \in Oracles(net) :
        /\ o.bridge
        /\ k # "bridge" => o.up
        /\ k \in {"address", "route"} => o.addr = net.addresses
        /\ k = "route" => o.route = net.routes}

\* The event loop dispatches one completion of a registered link
LinkDispatch ==
    \E e \in links, k \in Kinds :
        /\ e.q[k] > 0
        /\ \E r \in Status, o \in HandlerEnv(k, e.network) :
             LET l == Handler(k, [Work(e) EXCEPT !.q[k] = @ - 1], r, e.network, o)
             IN  /\ links' = (links \ {e}) \cup {Stored(e, l)}
                 /\ added' = [NoEvent EXCEPT !.op = k, !.device.ifindex = e.ifindex,
                                             !.r = r, !.pre = links,
                                             !.calls = l.calls, !.path = l.path]
        /\ UNCHANGED <<link, network, rtnl, step, hist>>
        /\ UNCHANGED busvars

AddInit == LinkIdle /\ BusInit

AddNext == LinkAdd \/ LinkDispatch

\* The registry: devices appear, in any order and any number of times, and the
\* links created for them are brought up.
AddSpec == AddInit /\ [][AddNext]_vars

Init == LinkInit /\ BusInit

Next == LinkConfigure \/ BridgeDone \/ LinkUpDone \/ AddressDone \/ RouteDone

\* The link: one device appears and is configured.
Spec == Init /\ [][Next]_vars

\* The event loop eventually dispatches every completion the transport holds.
FairSpec == Spec /\ WF_vars(Dispatch)

(***************************************************************************)
(* Properties of the link                                                  *)
(***************************************************************************)
Terminal == {"Configured", "Failed"}

\* completions of address and route requests the transport still holds
Outstanding == rtnl["address"] + rtnl["route"]

\* completions of any kind the transport still holds
Pending == rtnl["bridge"] + rtnl["link"] + rtnl["address"] + rtnl["route"]

\* the address/route submissions of the last handler that succeeded
OkCalls == {i \in DOMAIN step.calls :
              step.calls[i].ok /\ step.calls[i].kind \in {"address", "route"}}

\* the submissions of the last handler that failed at submission time
FailedCalls == {i \in DOMAIN step.calls : ~step.calls[i].ok}

\* the last handler was the completion of an address or route request
Completion == step.op \in {"address", "route"}

\* the position of call i among the address/route submissions of the last handler
StageIndex(i) == Cardinality({j \in 1..i : step.calls[j].kind \in {"address", "route"}})

StageOrder == <<"Invalid", "JoinBridge", "BridgeJoined", "SetAddresses", "AddressesSet",
                "SetRoutes", "RoutesSet", "Configured">>

Rank(s) == CHOOSE i \in DOMAIN StageOrder : StageOrder[i] = s

\* C1: rtnl_messages is never negative and, between event dispatches, equals the
\* number of address/route requests submitted successfully whose completion has
\* not been dispatched; each dispatched address or route completion takes exactly
\* one off the counter (before the requests of a newly entered stage are added),
\* also when the link is already Failed.
C1_PendingCounter ==
    /\ link.rtnl_messages >= 0
    /\ link.rtnl_messages = Outstanding
    /\ Completion =>
         link.rtnl_messages = step.pre.rtnl_messages - 1 + Cardinality(OkCalls)
    /\ (Completion /\ step.pre.state = "Failed") =>
         link.rtnl_messages = step.pre.rtnl_messages - 1

\* a route completion was drained in Failed while another one is still outstanding
C1_Witness ==
    /\ step.op = "route"
    /\ step.pre.state = "Failed"
    /\ step.pre.rtnl_messages = 2
    /\ link.rtnl_messages = 1

\* C2: the link leaves SetAddresses (resp. SetRoutes) only in the handler of the
\* address (resp. route) completion that takes rtnl_messages from 1 to 0, and a
\* handler submits route requests only when no address completion is outstanding.
C2_StageGating ==
    [][ /\ (link.state = "SetAddresses" /\ link'.state # "SetAddresses") =>
              /\ step'.op = "address"
              /\ link.rtnl_messages = 1
              /\ rtnl["address"] = 1
              /\ rtnl'["address"] = 0
        /\ (link.state = "SetRoutes" /\ link'.state # "SetRoutes") =>
              /\ step'.op = "route"
              /\ link.rtnl_messages = 1
              /\ rtnl'["route"] = 0
              /\ link'.rtnl_messages = 0
              /\ link'.state \in {"RoutesSet", "Configured"}
        /\ (\E i \in DOMAIN step'.calls : step'.calls[i].kind = "route") =>
              /\ rtnl'["address"] = 0
              /\ step'.op = "address" => link.rtnl_messages = 1
      ]_vars

\* the last of three address completions moved the link on and two routes were submitted
C2_Witness ==
    /\ step.op = "address"
    /\ step.pre.state = "SetAddresses"
    /\ step.pre.rtnl_messages = 1
    /\ network.addresses = 3
    /\ link.state = "SetRoutes"
    /\ rtnl["route"] = 2

\* C3: once link_configure ran, and with every completion eventually dispatched,
\* the link reaches Configured or Failed, never changes state afterwards, and is
\* never in a non-terminal state with no completion outstanding.
C3_Liveness ==
    /\ (link.state # "Invalid") ~> (link.state \in Terminal)
    /\ [][link.state \in Terminal => link'.state = link.state]_vars
    /\ [](link.state \notin (Terminal \cup {"Invalid"}) => Pending > 0)

\* a link with a bridge, addresses and routes got Configured
C3_Witness ==
    /\ link.state = "Configured"
    /\ network.bridge
    /\ network.addresses = 2
    /\ network.routes = 2
    /\ Pending = 0

\* C4: in Failed every late completion leaves the state Failed, enters no stage
\* and submits nothing; an address or route completion takes one off
\* rtnl_messages, a bridge or link-up completion leaves it alone; with all late
\* address/route completions dispatched the counter is 0.
C4_Drain ==
    /\ [][link.state = "Failed" =>
            /\ link'.state = "Failed"
            /\ step'.path = <<>>
            /\ step'.calls = <<>>
            /\ \A k \in Kinds : rtnl'[k] <= rtnl[k]
            /\ link'.rtnl_messages =
                 IF step'.op \in {"address", "route"} THEN link.rtnl_messages - 1
                 ELSE link.rtnl_messages
         ]_vars
    /\ []((link.state = "Failed" /\ Outstanding = 0) => link.rtnl_messages = 0)

\* two late completions were drained in Failed, then the late link-up completion
C4_Witness ==
    /\ link.state = "Failed"
    /\ hist.drained = 2
    /\ link.rtnl_messages = 0
    /\ step.op = "link"
    /\ step.pre.state = "Failed"

\* C5: when a submission (bridge_join, link_up, address_configure,
\* route_configure) fails, the handler ends in Failed, the failed submission is
\* the last one the handler made, and rtnl_messages counts exactly the address
\* and route requests of the stage submitted successfully before it.
C5_SyncFailure ==
    FailedCalls # {} =>
        /\ link.state = "Failed"
        /\ FailedCalls = {Len(step.calls)}
        /\ step.path[Len(step.path)] = "Failed"
        /\ link.rtnl_messages = Cardinality(OkCalls)
        /\ \A k \in Kinds :
             rtnl[k] = (IF step.op = k THEN step.pre_q[k] - 1 ELSE step.pre_q[k])
                       + Cardinality({i \in DOMAIN step.calls :
                                        step.calls[i].ok /\ step.calls[i].kind = k})

\* the third address_configure failed after two succeeded
C5_Witness ==
    /\ Len(step.calls) >= 3
    /\ step.calls[Len(step.calls)] = [kind |-> "address", ok |-> FALSE, cnt |-> 2]
    /\ link.state = "Failed"
    /\ link.rtnl_messages = 2

ZeroWork == ~network.bridge /\ network.addresses = 0 /\ network.routes = 0

\* C7: between event dispatches the link is never in SetAddresses or SetRoutes
\* with rtnl_messages = 0, nor in BridgeJoined or AddressesSet; with no bridge, no
\* addresses and no routes (and the link-up request submitted) it is in RoutesSet
\* when link_configure returns, having submitted only the link-up request, and
\* Configured after the link-up completion.
C7_ZeroWorkChains ==
    /\ link.state \in {"SetAddresses", "SetRoutes"} => link.rtnl_messages > 0
    /\ link.state \notin {"BridgeJoined", "AddressesSet"}
    /\ (ZeroWork /\ step.op = "configure" /\ FailedCalls = {}) =>
          /\ link.state = "RoutesSet"
          /\ step.path = <<"BridgeJoined", "AddressesSet", "SetRoutes", "RoutesSet">>
          /\ Pending = 1 /\ rtnl["link"] = 1
    /\ (ZeroWork /\ step.op = "link") =>
          /\ step.pre.state = "RoutesSet"
          /\ link.state = "Configured"
          /\ Pending = 0

\* the link-up completion alone configured a link with nothing to set
C7_Witness ==
    /\ ZeroWork
    /\ step.op = "link"
    /\ link.state = "Configured"

\* the link state a completion handler would end in, for status r
AfterAddress(r, o) ==
    address_handler([Begin EXCEPT !.q["address"] = @ - 1], r, network, o).state

AfterRoute(r, o) ==
    route_handler([Begin EXCEPT !.q["route"] = @ - 1], r, network, o).state

\* C8: the completion that takes the counter of the address stage to 0 moves the
\* link through AddressesSet into SetRoutes (and on, unless a route submission
\* fails), the one of the route stage to RoutesSet or Configured, whatever the
\* statuses; a handler ends in Failed only through a failed submission, and the
\* status of a completion never changes the state its handler ends in.
C8_StatusNeverAborts ==
    /\ (step.op = "address" /\ step.pre.state = "SetAddresses"
                            /\ step.pre.rtnl_messages = 1) =>
          /\ \E i \in DOMAIN step.path : step.path[i] = "AddressesSet"
          /\ \E i \in DOMAIN step.path : step.path[i] = "SetRoutes"
          /\ FailedCalls = {} => link.state \in {"SetRoutes", "RoutesSet", "Configured"}
    /\ (step.op = "route" /\ step.pre.state = "SetRoutes"
                          /\ step.pre.rtnl_messages = 1) =>
          link.state \in {"RoutesSet", "Configured"}
    /\ (step.pre.state # "Failed" /\ link.state = "Failed") => FailedCalls # {}
    /\ rtnl["address"] > 0 =>
          \A r1, r2 \in Status, o \in Oracles(network) :
              AfterAddress(r1, o) = AfterAddress(r2, o)
    /\ rtnl["route"] > 0 =>
          \A r1, r2 \in Status, o \in Oracles(network) :
              AfterRoute(r1, o) = AfterRoute(r2, o)

\* three address completions with success, -EEXIST and another error, the last
\* one logged as a warning, and the link is in the route stage
C8_Witness ==
    /\ step.op = "address"
    /\ step.pre.state = "SetAddresses"
    /\ step.pre.rtnl_messages = 1
    /\ hist.statuses = Status
    /\ step.warned
    /\ link.state = "SetRoutes"

\* the states a handler went through: where it started, then each assignment
Visited == <<step'.pre.state>> \o step'.path

\* C9: the state never moves backwards in the stage order, also inside a
\* handler; Failed is entered only from a non-terminal state and never left;
\* Configured is never left.
C9_StageOrder ==
    [][ /\ step'.pre = link
        /\ link'.state = Visited[Len(Visited)]
        /\ \A i \in 1..(Len(Visited) - 1) :
             IF Visited[i + 1] = "Failed"
             THEN Visited[i] \notin Terminal
             ELSE /\ Visited[i] \notin Terminal
                  /\ Rank(Visited[i]) < Rank(Visited[i + 1])
      ]_vars

\* a link with a bridge got Configured by its last route completion
C9_Witness ==
    /\ link.state = "Configured"
    /\ network.bridge
    /\ step.op = "route"
    /\ step.path = <<"Configured">>

(***************************************************************************)
(* Properties of the bus-name                                              *)
(***************************************************************************)
\* C10: whenever the bus-name state is Dead or Failed, no starter descriptor is
\* held open (starter_fd is negative), whatever the descriptor's number was,
\* descriptor 0 included.
C10_ClosedWhenDead ==
    n.state \in {"BUSNAME_DEAD", "BUSNAME_FAILED"} => n.starter_fd < 0

\* the events of one kind that an operation logged
Events(log, kinds) == {i \in DOMAIN log : log[i].ev \in kinds}

\* the unit is loaded and coldplugged, and neither serialized nor freed
Live == phase = "live"

Active == n.state \in {"BUSNAME_LISTENING", "BUSNAME_RUNNING"}

\* C11: every open descriptor that is not in the FDSet of a reload is the
\* bus-name's current starter_fd (so at most one, and none is leaked), a held
\* starter_fd is open, and an operation creates a descriptor only at a moment
\* when the bus-name holds none: it held none before the operation, or the
\* operation closed the one it held first.
C11_OneHandleNoLeak ==
    /\ kfds \ fds \subseteq {n.starter_fd}
    /\ n.starter_fd >= 0 => n.starter_fd \in kfds
    /\ Cardinality(Events(bstep.log, {"create"})) <= 1
    /\ \A i \in Events(bstep.log, {"create"}) :
         \/ bstep.pre.starter_fd < 0
         \/ \E j \in 1..(i - 1) : /\ bstep.log[j].ev = "close"
                                   /\ bstep.log[j].fd = bstep.pre.starter_fd

\* a notification for a unit that holds its descriptor re-entered Listening
\* without creating another one
C11_Witness ==
    /\ bstep.op = "trigger_notify"
    /\ bstep.pre.state = "BUSNAME_RUNNING"
    /\ n.state = "BUSNAME_LISTENING"
    /\ n.starter_fd = bstep.pre.starter_fd
    /\ kfds = {n.starter_fd}
    /\ Events(bstep.log, {"create"}) = {}

C13_StopTerminal ==
    bstep.op = "stop" =>
        /\ bstep.r = 0
        /\ n.state \in {"BUSNAME_DEAD", "BUSNAME_FAILED"}
        /\ bstep.pre.result = "BUSNAME_SUCCESS" => n.state = "BUSNAME_DEAD"
        /\ ~n.event_source.enabled
        /\ n.starter_fd < 0
        /\ bstep.pre.starter_fd \notin kfds


\* C14: in every live Dead or Failed state, busname_start with a service that
\* is set but not loaded returns an error for whatever the environment would
\* answer, and leaves the object, the open descriptors and the FDSet as they
\* were, without creating, watching, closing or notifying anything.
C14_StartDependencyFailure ==
    (Live /\ ~Active) =>
        \A e \in EnvListen :
            LET b == busname_start(BBegin, TRUE, FALSE, e)
            IN  /\ b.r < 0
                /\ Object(b) = n
                /\ b.kfds = kfds
                /\ b.fds = fds
                /\ b.log = <<>>
                /\ b.ok

\* such a start was refused
C14_Witness ==
    /\ bstep.op = "start"
    /\ bstep.r < 0
    /\ n = bstep.pre
    /\ bstep.log = <<>>


\* C15: busname_start that was not refused has cleared the result and ends
\* either in Listening with the starter descriptor open and the event source
\* enabled, or in Failed with result 'resources', no starter descriptor held or
\* open and the event source disabled; it ends in no other state.
C15_StartOutcome ==
    (bstep.op = "start" /\ bstep.r = 0) =>
        \/ /\ n.state = "BUSNAME_LISTENING"
           /\ n.result = "BUSNAME_SUCCESS"
           /\ n.starter_fd >= 0
           /\ n.starter_fd \in kfds
           /\ n.event_source.enabled
        \/ /\ n.state = "BUSNAME_FAILED"
           /\ n.result = "BUSNAME_FAILURE_RESOURCES"
           /\ n.starter_fd < 0
           /\ kfds \ fds = {}
           /\ ~n.event_source.enabled


\* a loaded service in state failed, with or without the start-limit result
FailedService(permanent) ==
    [loaded |-> TRUE, service |-> TRUE, state |-> "SERVICE_FAILED", start_limit |-> permanent]

\* C16: in every live Listening or Running state, trigger_notify for the loaded
\* service failed with the start-limit result ends in Failed with the result
\* 'service failed permanently', the event source disabled and the starter
\* descriptor closed and forgotten, and never passes through Listening again.
C16_PermanentFailure ==
    (Live /\ Active) =>
        \A e \in EnvListen :
            LET b == busname_trigger_notify(BBegin, FailedService(TRUE), e)
            IN  /\ b.state = "BUSNAME_FAILED"
                /\ b.result = "BUSNAME_FAILURE_SERVICE_FAILED_PERMANENT"
                /\ ~b.event_source.enabled
                /\ b.starter_fd < 0
                /\ n.starter_fd \notin b.kfds
                /\ Events(b.log, {"on", "add_io", "create"}) = {}
                /\ \A i \in Events(b.log, {"notify"}) : b.log[i].new = "UNIT_FAILED"


ServiceStopping ==
    {"SERVICE_STOP", "SERVICE_STOP_SIGTERM", "SERVICE_STOP_SIGKILL", "SERVICE_STOP_POST",
     "SERVICE_FINAL_SIGTERM", "SERVICE_FINAL_SIGKILL", "SERVICE_AUTO_RESTART"}

\* C18: in every live Running state, trigger_notify for the loaded service in
\* a stopping or auto-restart sub-state ends in Listening with the event source
\* enabled, whenever registering or enabling the event source succeeds.
C18_EagerRelisten ==
    (Live /\ n.state = "BUSNAME_RUNNING") =>
        \A s \in ServiceStopping, limit \in BOOLEAN, e \in EnvListen :
            LET other == [loaded |-> TRUE, service |-> TRUE, state |-> s,
                          start_limit |-> limit]
                b == busname_trigger_notify(BBegin, other, e)
            IN  (e.add_io /\ e.enable) =>
                    /\ b.state = "BUSNAME_LISTENING"
                    /\ b.event_source.enabled


\* C19: in every live Listening state with the event source enabled, an
\* EPOLLIN event dispatched while a stop of the unit is pending changes nothing:
\* the object (state, result, descriptor, event source) and the open
\* descriptors are as before, and nothing is queued, switched, closed or
\* notified.
C19_SuppressedActivation ==
    (Live /\ n.state = "BUSNAME_LISTENING" /\ n.event_source.enabled) =>
        \A e \in EnvRun :
            LET b == busname_dispatch_io(BBegin, n.event_source.fd, "EPOLLIN", e)
            IN  e.stop_pending =>
                    /\ Object(b) = n
                    /\ b.kfds = kfds
                    /\ b.log = <<>>
                    /\ b.ok

\* an event was dispatched in Listening and did nothing
C19_Witness ==
    /\ bstep.op = "dispatch_io"
    /\ bstep.pre.state = "BUSNAME_LISTENING"
    /\ n = bstep.pre
    /\ bstep.log = <<>>

\* C20: in every live Listening state with the event source enabled, an
\* EPOLLIN event dispatched with no stop pending asks the manager for a start
\* job exactly when no triggered unit is active or pending; with one active or
\* pending nothing is asked of the manager and the bus-name is Running; a job
\* that was queued leaves it Running as well.
C20_NoDuplicateStart ==
    (Live /\ n.state = "BUSNAME_LISTENING" /\ n.event_source.enabled) =>
        \A e \in EnvRun :
            LET b == busname_dispatch_io(BBegin, n.event_source.fd, "EPOLLIN", e)
                asked == Events(b.log, {"job", "job_failed"})
            IN  ~e.stop_pending =>
                    /\ (asked # {}) <=> ~e.pending
                    /\ Cardinality(asked) <= 1
                    /\ e.pending => b.state = "BUSNAME_RUNNING"
                    /\ Events(b.log, {"job"}) # {} => b.state = "BUSNAME_RUNNING"
                    /\ (Events(b.log, {"job"}) # {}) <=> (~e.pending /\ e.add_job)

\* an activation went to Running without a start job
C20_Witness ==
    /\ bstep.op = "dispatch_io"
    /\ bstep.pre.state = "BUSNAME_LISTENING"
    /\ n.state = "BUSNAME_RUNNING"
    /\ Events(bstep.log, {"job", "job_failed"}) = {}


\* C21: entering a stage the bus-name is in already.  In every live Listening
\* state busname_enter_listening creates no descriptor and registers no event
\* source, and, when switching the source on again succeeds, leaves the state,
\* the descriptor, the open descriptors and the event source as they were.  In
\* every live Dead state busname_enter_dead(success) leaves the state Dead and
\* closes nothing a second time: nothing at all when no descriptor is held, and
\* otherwise at most the held descriptor, once, which was open until then.
C21_IdempotentEntry ==
    /\ (Live /\ n.state = "BUSNAME_LISTENING") =>
           /\ n.starter_fd >= 0
           /\ \A e \in EnvListen :
                LET b == busname_enter_listening(BBegin, e)
                IN  /\ Events(b.log, {"create", "add_io"}) = {}
                    /\ b.kfds \subseteq kfds
                    /\ e.enable => /\ b.state = "BUSNAME_LISTENING"
                                   /\ b.starter_fd = n.starter_fd
                                   /\ b.event_source = n.event_source
                                   /\ b.kfds = kfds
    /\ (Live /\ n.state = "BUSNAME_DEAD") =>
           LET b == busname_enter_dead(BBegin, "BUSNAME_SUCCESS")
           IN  /\ b.state = "BUSNAME_DEAD"
               /\ n.starter_fd < 0 => Events(b.log, {"close"}) = {}
               /\ Cardinality(Events(b.log, {"close"})) <= 1
               /\ \A i \in Events(b.log, {"close"}) :
                    b.log[i].fd = n.starter_fd /\ b.log[i].fd \in kfds
               /\ LET c == busname_enter_dead(b, "BUSNAME_SUCCESS")
                  IN  Events(c.log, {"close"}) = Events(b.log, {"close"})

\* a notification made a Listening unit enter Listening again
C21_Witness ==
    /\ bstep.op = "trigger_notify"
    /\ bstep.pre.state = "BUSNAME_LISTENING"
    /\ n.state = "BUSNAME_LISTENING"
    /\ Events(bstep.log, {"on"}) # {}
    /\ Events(bstep.log, {"create", "add_io"}) = {}
    /\ n.starter_fd = bstep.pre.starter_fd


\* C22: in every live Listening or Running state, serializing the unit (the
\* copy of the descriptor being made), freeing it, and restoring a fresh
\* instance from the lines written, in any order, gives, when coldplug's
\* registration of the event source succeeds: coldplug returning 0, the same
\* state and result, the copy of the FDSet as starter descriptor with no
\* descriptor created, and the event source enabled exactly in Listening.
C22_RoundTrip ==
    (Live /\ Active) =>
        \A d \in EnvDup : d.dup >= 0 =>
            LET s == busname_serialize(BBegin, d)
            IN  /\ s.r = 0
                /\ \A p \in Perms(s.out), e \in EnvListen :
                     LET c == Restore(busname_done(s), p, e)
                     IN  e.add_io =>
                             /\ c.r = 0
                             /\ c.state = n.state
                             /\ c.result = n.result
                             /\ c.starter_fd = d.dup
                             /\ c.starter_fd \in c.kfds
                             /\ Events(c.log, {"create"}) = {}
                             /\ c.event_source.enabled <=> c.state = "BUSNAME_LISTENING"

\* a Running unit came back Running from a reload, on the descriptor it was
\* handed
C22_Witness ==
    /\ bstep.op = "coldplug"
    /\ bstep.r = 0
    /\ n.state = "BUSNAME_RUNNING"
    /\ n.starter_fd \in kfds
    /\ Events(bstep.log, {"create"}) = {}


\* the unit is being restored: lines are handed to it, coldplug is still to come
Restoring == phase = "restore"

Ignored(item, table) ==
    \/ item.key \notin {"state", "result", "starter-fd"}
    \/ item.key = "state" /\ item.value \notin {"dead", "listening", "running", "failed"}
    \/ item.key = "result" /\ item.value \notin {"success", "resources"}
    \/ item.key = "starter-fd" /\ item.value \notin {FormatInt(i) : i \in table}

\* C24: during a restore busname_deserialize_item, handed a line it has to
\* ignore, returns 0 and leaves deserialized_state, result and starter_fd, and
\* with them the whole object, the FDSet and the open descriptors, as they
\* were.
C24_TolerantDeserialize ==
    Restoring =>
        \A item \in RestoreItems :
            LET b == busname_deserialize_item(BBegin, item.key, item.value)
            IN  Ignored(item, fds) =>
                    /\ b.r = 0
                    /\ b.deserialized_state = n.deserialized_state
                    /\ b.result = n.result
                    /\ b.starter_fd = n.starter_fd
                    /\ Object(b) = n
                    /\ b.fds = fds
                    /\ b.kfds = kfds
                    /\ b.ok

\* a starter-fd line naming a descriptor that the FDSet does not hold was read
\* by a unit that had a state, a result and a descriptor restored already
C24_Witness ==
    /\ bstep.op = "deserialize_item"
    /\ bstep.r = 0
    /\ bstep.log[1].old = "starter-fd"
    /\ bstep.log[1].new \in {FormatInt(i) : i \in Fd \ fds}
    /\ bstep.pre.deserialized_state # "BUSNAME_DEAD"
    /\ bstep.pre.starter_fd >= 0
    /\ n = bstep.pre


\* lines with distinct keys among state, result and starter-fd
DistinctKeys(L) ==
    /\ \A a \in L : a.key \in {"state", "result", "starter-fd"}
    /\ \A a, b \in L : a.key = b.key => a = b

\* C25: at every point of a restore at which the lines still to be read have
\* distinct keys among state, result and starter-fd, reading them in any two
\* orders and coldplugging (the environment answering alike) gives the same
\* state, result and starter descriptor, the same return value and the same
\* open descriptors.
C25_OrderIndependent ==
    (Restoring /\ DistinctKeys(lines)) =>
        \A p, q \in Perms(lines), e \in EnvListen :
            LET a == busname_coldplug(DeserializeAll(BBegin, p), e)
                b == busname_coldplug(DeserializeAll(BBegin, q), e)
            IN  /\ a.state = b.state
                /\ a.result = b.result
                /\ a.starter_fd = b.starter_fd
                /\ Object(a) = Object(b)
                /\ a.r = b.r
                /\ a.kfds = b.kfds
                /\ a.fds = b.fds

\* a state, a result and a descriptor were read, in some order, and applied
C25_Witness ==
    /\ bstep.op = "coldplug"
    /\ bstep.r = 0
    /\ n.state = "BUSNAME_LISTENING"
    /\ n.result = "BUSNAME_FAILURE_RESOURCES"
    /\ n.starter_fd \in kfds
    /\ Events(bstep.log, {"create"}) = {}


\* C26: at every point of a restore, busname_coldplug does nothing at all and
\* returns 0 when deserialized_state is the current state (Dead).  Otherwise it
\* asks for a descriptor exactly when none is held and the restored state is
\* Listening or Running, registers or enables the event source only for
\* Listening, and, unless one of the two failed (then it returns the error
\* with the state still Dead and nothing notified), applies the restored state
\* through exactly one busname_set_state, which notifies inactive -> the status
\* of the restored state.
C26_Coldplug ==
    Restoring =>
        \A e \in EnvListen :
            LET b == busname_coldplug(BBegin, e)
                ds == n.deserialized_state
                opens == n.starter_fd < 0 /\ ds \in {"BUSNAME_LISTENING", "BUSNAME_RUNNING"}
                notified == Events(b.log, {"notify"})
            IN  /\ b.ok
                /\ ds = n.state =>
                       /\ b.r = 0
                       /\ Object(b) = n
                       /\ b.kfds = kfds
                       /\ b.log = <<>>
                /\ ds # n.state =>
                       /\ Events(b.log, {"create"}) # {} => opens
                       /\ opens => (Events(b.log, {"create"}) # {} <=> e.create >= 0)
                       /\ (opens /\ e.create < 0) => b.r < 0
                       /\ Events(b.log, {"add_io", "on"}) # {} => ds = "BUSNAME_LISTENING"
                       /\ b.event_source.enabled => ds = "BUSNAME_LISTENING"
                       /\ b.r = 0 =>
                              /\ b.state = ds
                              /\ Cardinality(notified) = 1
                              /\ \A i \in notified :
                                   /\ b.log[i].old = "UNIT_INACTIVE"
                                   /\ b.log[i].new = state_translation_table(ds)
                              /\ ds = "BUSNAME_LISTENING" => b.event_source.enabled
                       /\ b.r < 0 =>
                              /\ b.state = n.state
                              /\ notified = {}

\* coldplug of a unit restored as Listening without a descriptor: it created
\* one, registered the event source and applied the state
C26_Witness ==
    /\ bstep.op = "coldplug"
    /\ bstep.r = 0
    /\ bstep.pre.deserialized_state = "BUSNAME_LISTENING"
    /\ bstep.pre.starter_fd < 0
    /\ n.state = "BUSNAME_LISTENING"
    /\ Events(bstep.log, {"create"}) # {}
    /\ Events(bstep.log, {"add_io"}) # {}
    /\ Cardinality(Events(bstep.log, {"notify"})) = 1


\* the rule of C27 for the two functions that store a reported result, for
\* every stored and every reported value: the stored result becomes the
\* reported one exactly when that is not success
ResultRule ==
    \A stored, f \in Range(BusNameResult) :
        LET b == [BBegin EXCEPT !.result = stored]
            expected == IF f # "BUSNAME_SUCCESS" THEN f ELSE stored
        IN  /\ busname_enter_dead(b, f).result = expected
            /\ \A value \in {busname_result_table(c) : c \in Range(BusNameResult)} \ {NULL} :
                 busname_result_from_string(value) = f =>
                     busname_deserialize_item(b, "result", value).result = expected

\* what an operation may do to the result of the instance it runs on: only
\* start and reset_failed put success in the place of a failure, and every
\* other operation that changes the result stores a failure
ResultStep ==
    (n'.result # n.result /\ bstep'.op # "init") =>
        IF n'.result = "BUSNAME_SUCCESS"
        THEN bstep'.op \in {"start", "reset_failed"}
        ELSE bstep'.op \in {"dispatch_io", "trigger_notify", "deserialize_item", "start"}

\* C27: busname_enter_dead and the deserialization of a result line replace the
\* stored result exactly when the reported value is not success (a success
\* never overwrites a failure, a failure always overwrites), and on one
\* instance the result goes back to success only in busname_start and
\* busname_reset_failed.
C27_ResultRule == [] ResultRule /\ [][ResultStep]_vars

\* an activation failed and its result was stored
C27_Witness ==
    /\ bstep.op = "dispatch_io"
    /\ bstep.pre.result = "BUSNAME_SUCCESS"
    /\ n.result = "BUSNAME_FAILURE_RESOURCES"
    /\ n.state = "BUSNAME_FAILED"


\* C28: in every live state busname_reset_failed sets the result to success;
\* in Failed it moves the state to Dead (notifying failed -> inactive), and in
\* every other state it leaves the state, the starter descriptor, the open
\* descriptors and the event source as they were and notifies nothing.
C28_ResetFailed ==
    Live =>
        LET b == busname_reset_failed(BBegin)
        IN  /\ b.result = "BUSNAME_SUCCESS"
            /\ n.state = "BUSNAME_FAILED" =>
                   /\ b.state = "BUSNAME_DEAD"
                   /\ \E i \in Events(b.log, {"notify"}) :
                        b.log[i].old = "UNIT_FAILED" /\ b.log[i].new = "UNIT_INACTIVE"
            /\ n.state # "BUSNAME_FAILED" =>
                   /\ b.state = n.state
                   /\ b.starter_fd = n.starter_fd
                   /\ b.event_source = n.event_source
                   /\ b.kfds = kfds
                   /\ b.log = <<>>

\* a Failed unit was reset
C28_Witness ==
    /\ bstep.op = "reset_failed"
    /\ bstep.pre.state = "BUSNAME_FAILED"
    /\ bstep.pre.result # "BUSNAME_SUCCESS"
    /\ n.state = "BUSNAME_DEAD"
    /\ n.result = "BUSNAME_SUCCESS"


\* the activation status the claim gives for each state
StatusOf(state) ==
    CASE state = "BUSNAME_DEAD"      -> "UNIT_INACTIVE"
      [] state = "BUSNAME_LISTENING" -> "UNIT_ACTIVE"
      [] state = "BUSNAME_RUNNING"   -> "UNIT_ACTIVE"
      [] state = "BUSNAME_FAILED"    -> "UNIT_FAILED"

IsNotify(event) == event.ev = "notify"

\* C29: in every state busname_active_state reports the status the table gives
\* for the state, and the notifications of an operation on an instance follow
\* its state: with none sent the state did not change, otherwise the first one
\* starts at the status of the state before the operation, each next one
\* starts where the one before ended, and the last one ends at the status of
\* the state after the operation.
C29_CoarseStatus ==
    /\ busname_active_state(BBegin) = StatusOf(n.state)
    /\ bstep.op # "init" =>
           LET sent == SelectSeq(bstep.log, IsNotify)
           IN  IF sent = <<>> THEN n.state = bstep.pre.state
               ELSE /\ sent[1].old = StatusOf(bstep.pre.state)
                    /\ sent[Len(sent)].new = StatusOf(n.state)
                    /\ \A i \in 1..(Len(sent) - 1) : sent[i + 1].old = sent[i].new

\* an activation notified active -> active for Listening -> Running
C29_Witness ==
    /\ bstep.op = "dispatch_io"
    /\ bstep.pre.state = "BUSNAME_LISTENING"
    /\ n.state = "BUSNAME_RUNNING"
    /\ \E i \in Events(bstep.log, {"notify"}) :
         bstep.log[i].old = "UNIT_ACTIVE" /\ bstep.log[i].new = "UNIT_ACTIVE"


\* C30: after busname_done, from whatever state, the bus-name has no event
\* source and holds no starter descriptor, the descriptor it held (descriptor
\* 0 too) is closed, so that nothing is open outside the FDSet of a reload, and
\* the event source was released before the descriptor was closed.
C30_DoneReleases ==
    bstep.op = "done" =>
        /\ n.event_source = NoSource
        /\ n.starter_fd < 0
        /\ bstep.pre.starter_fd \notin kfds
        /\ kfds \ fds = {}
        /\ Events(bstep.log, {"unref"}) # {}
        /\ bstep.pre.starter_fd >= 0 => Events(bstep.log, {"close"}) # {}
        /\ \A i \in Events(bstep.log, {"close"}) :
             /\ bstep.log[i].fd = bstep.pre.starter_fd
             /\ \E j \in Events(bstep.log, {"unref"}) : j < i

\* a Listening unit on descriptor 0 was freed
C30_Witness ==
    /\ bstep.op = "done"
    /\ bstep.pre.state = "BUSNAME_LISTENING"
    /\ bstep.pre.event_source.enabled
    /\ bstep.pre.starter_fd = 0
    /\ n.starter_fd < 0
    /\ 0 \notin kfds


\* the state changes C31 lists, by the operation that makes them
ListedChange(op, s, t) ==
    \/ op = "start" /\ s \in {"BUSNAME_DEAD", "BUSNAME_FAILED"} /\ t = "BUSNAME_LISTENING"
    \/ op = "dispatch_io" /\ s = "BUSNAME_LISTENING" /\ t = "BUSNAME_RUNNING"
    \/ op = "trigger_notify" /\ s = "BUSNAME_RUNNING" /\ t = "BUSNAME_LISTENING"
    \/ /\ op \in {"stop", "dispatch_io", "trigger_notify"}
       /\ s \in {"BUSNAME_LISTENING", "BUSNAME_RUNNING"}
       /\ t \in {"BUSNAME_DEAD", "BUSNAME_FAILED"}
    \/ op = "reset_failed" /\ s = "BUSNAME_FAILED" /\ t = "BUSNAME_DEAD"

\* an event dispatched in a state other than Listening changes nothing
DispatchElsewhere ==
    (Live /\ n.state # "BUSNAME_LISTENING") =>
        \A fd \in Fd, revents \in Revents, e \in EnvRun :
            LET b == busname_dispatch_io(BBegin, fd, revents, e)
            IN  Object(b) = n /\ b.kfds = kfds /\ b.log = <<>>

\* C31 as stated: on one instance and outside coldplug the state changes only
\* along the listed changes, and an event dispatched outside Listening changes
\* nothing.
C31_TransitionRelation ==
    /\ [] DispatchElsewhere
    /\ [][(n'.state # n.state /\ bstep'.op \notin {"coldplug", "init"})
            => ListedChange(bstep'.op, n.state, n'.state)]_vars

\* C31, amended: the listed changes and one more, Dead -> Failed by a start
\* that fails to create or watch the starter descriptor.
C31_Transitions ==
    /\ [] DispatchElsewhere
    /\ [][(n'.state # n.state /\ bstep'.op \notin {"coldplug", "init"})
            => \/ ListedChange(bstep'.op, n.state, n'.state)
               \/ /\ bstep'.op = "start"
                  /\ n.state = "BUSNAME_DEAD"
                  /\ n'.state = "BUSNAME_FAILED"
                  /\ n'.result = "BUSNAME_FAILURE_RESOURCES"]_vars

\* a start failed in Dead
C31_Witness ==
    /\ bstep.op = "start"
    /\ bstep.r = 0
    /\ bstep.pre.state = "BUSNAME_DEAD"
    /\ n.state = "BUSNAME_FAILED"


\* C32: in every live Listening state with the event source enabled, an event
\* that is not EPOLLIN, and an EPOLLIN event for which the start job has to be
\* queued and cannot be, end the dispatch in Failed with result 'resources',
\* the event source disabled and the starter descriptor closed and forgotten.
C32_ActivationFailure ==
    (Live /\ n.state = "BUSNAME_LISTENING" /\ n.event_source.enabled) =>
        \A revents \in Revents, e \in EnvRun :
            LET b == busname_dispatch_io(BBegin, n.event_source.fd, revents, e)
                failure == \/ revents # "EPOLLIN"
                           \/ ~e.stop_pending /\ ~e.pending /\ ~e.add_job
            IN  failure =>
                    /\ b.state = "BUSNAME_FAILED"
                    /\ b.result = "BUSNAME_FAILURE_RESOURCES"
                    /\ ~b.event_source.enabled
                    /\ b.starter_fd < 0
                    /\ n.starter_fd \notin b.kfds


(***************************************************************************)
(* Further properties of the link                                          *)
(***************************************************************************)
\* a Configured link is up, its link-up completion has been dispatched, and its
\* address and route stages have finished
ConfiguredNeedsBoth ==
    link.state = "Configured" =>
        /\ link.up
        /\ rtnl["link"] = 0
        /\ link.rtnl_messages = 0
        /\ rtnl["address"] = 0
        /\ rtnl["route"] = 0

\* whatever its status, a link-up completion records the up flag, configures a
\* link waiting in RoutesSet, and leaves every other state as it is
LinkUpStatusIgnored ==
    rtnl["link"] > 0 =>
        \A r \in Status, o \in Oracles(network) :
            LET b == link_handler([Begin EXCEPT !.q["link"] = @ - 1], r, network, o)
            IN  /\ b.up
                /\ b.state = IF link.state = "RoutesSet" THEN "Configured" ELSE link.state
                /\ b.rtnl_messages = link.rtnl_messages
                /\ b.calls = <<>>

\* how Configured and RoutesSet are entered
ConfiguredStep ==
    /\ (link'.state = "Configured" /\ link.state # "Configured") =>
           \/ step'.op = "link" /\ link.state = "RoutesSet" /\ ~link.up
           \/ step'.op \in {"address", "route"} /\ link.up /\ link.state # "RoutesSet"
    /\ (link'.state = "RoutesSet" /\ link.state # "RoutesSet") =>
           /\ ~link'.up
           /\ rtnl'["link"] = 1
           /\ link'.rtnl_messages = 0

\* C33: a link is Configured only with its link-up completion dispatched and
\* its route stage finished; it becomes Configured either by the link-up
\* completion arriving in RoutesSet, where a link whose routes finished first
\* waits, or by the route stage finishing on a link that is up already; a
\* link-up completion in any other state only records the up flag; and the
\* status of the link-up completion makes no difference.
C33_ConfiguredNeedsBoth ==
    /\ [] ConfiguredNeedsBoth
    /\ [] LinkUpStatusIgnored
    /\ [][ConfiguredStep]_vars

\* routes finished first, the link waited in RoutesSet, and a link-up
\* completion carrying an error configured it
C33_Witness ==
    /\ link.state = "Configured"
    /\ step.op = "link"
    /\ step.r < 0
    /\ step.pre.state = "RoutesSet"
    /\ network.routes > 0


\* the kinds of the requests a handler submitted, successfully or not
Submitted(calls) == {calls[i].kind : i \in DOMAIN calls}

\* while the bridge is being joined: the bridge-join completion is pending and
\* nothing else was asked of the transport; without a bridge JoinBridge is
\* never entered, not even in passing
JoinBridgeWaits ==
    /\ link.state = "JoinBridge" =>
           /\ network.bridge
           /\ rtnl["bridge"] = 1
           /\ rtnl["link"] = 0 /\ rtnl["address"] = 0 /\ rtnl["route"] = 0
           /\ ~link.up
    /\ ~network.bridge =>
           /\ link.state # "JoinBridge"
           /\ \A i \in DOMAIN step.path : step.path[i] # "JoinBridge"
           /\ "bridge" \notin Submitted(step.calls)
    /\ (network.bridge /\ step.op = "configure") =>
           /\ Submitted(step.calls) = {"bridge"}
           /\ step.path[1] = "JoinBridge"

\* whatever its status, the bridge-join completion takes the link out of
\* JoinBridge and asks for the link to be brought up first
BridgeStatusIgnored ==
    (link.state = "JoinBridge" /\ rtnl["bridge"] > 0) =>
        \A r \in Status, o \in Oracles(network) :
            LET b == bridge_handler([Begin EXCEPT !.q["bridge"] = @ - 1], r, network, o)
                c == bridge_handler([Begin EXCEPT !.q["bridge"] = @ - 1], 0, network, o)
            IN  /\ b.state # "JoinBridge"
                /\ b.state = c.state
                /\ b.calls = c.calls
                /\ b.calls # <<>> /\ b.calls[1].kind = "link"

\* JoinBridge is left only by the bridge-join completion, and with a bridge no
\* request to bring the link up or to set an address or route is made before it
BridgeStep ==
    /\ (link.state = "JoinBridge" /\ link'.state # "JoinBridge") => step'.op = "bridge"
    /\ (network.bridge /\ step'.op = "configure") =>
           Submitted(step'.calls) \cap {"link", "address", "route"} = {}
    /\ (network.bridge /\ "link" \in Submitted(step'.calls)) =>
           step'.op = "bridge" /\ link.state = "JoinBridge"

\* C34: with a bridge the link stays in JoinBridge until the bridge-join
\* completion is dispatched, and no link-up, address or route request is
\* submitted before it; that completion advances the link whatever its status;
\* without a bridge JoinBridge is never entered.
C34_BridgeOrdering ==
    /\ [] JoinBridgeWaits
    /\ [] BridgeStatusIgnored
    /\ [][BridgeStep]_vars

\* a bridge-join completion carrying an error advanced the link
C34_Witness ==
    /\ step.op = "bridge"
    /\ step.r < 0
    /\ step.r # 0 - EEXIST
    /\ step.pre.state = "JoinBridge"
    /\ link.state = "SetAddresses"
    /\ step.calls[1].kind = "link"


\* C35: every assertion a handler made held, and whenever a completion can be
\* dispatched the assertions its handler will make hold: an address completion
\* is pending only with rtnl_messages > 0 in SetAddresses or Failed, a route
\* completion only with rtnl_messages > 0 in SetRoutes or Failed, a bridge-join
\* completion only in JoinBridge or Failed; the address and the route stage
\* were entered with rtnl_messages = 0, the route stage from AddressesSet.
C35_AssertionsHold ==
    /\ step.ok
    /\ rtnl["address"] > 0 =>
           link.rtnl_messages > 0 /\ link.state \in {"SetAddresses", "Failed"}
    /\ rtnl["route"] > 0 =>
           link.rtnl_messages > 0 /\ link.state \in {"SetRoutes", "Failed"}
    /\ rtnl["bridge"] > 0 => link.state \in {"JoinBridge", "Failed"}
    /\ \A i \in DOMAIN step.path :
         step.path[i] = "SetRoutes" => (i > 1 /\ step.path[i - 1] = "AddressesSet")
    /\ \A kind \in {"address", "route"}, j \in DOMAIN step.calls :
         (/\ step.calls[j].kind = kind
          /\ \A k \in 1..(j - 1) : step.calls[k].kind # kind)
             => step.calls[j].cnt = 0

\* a route completion was dispatched to a link that had failed, with the
\* counter still positive
C35_Witness ==
    /\ step.op = "route"
    /\ step.pre.state = "Failed"
    /\ step.pre.rtnl_messages > 0
    /\ step.ok


\* C36: in a unit that is started, stopped, activated, notified and reset (and
\* never restored), the state is Failed exactly when the stored result is not
\* success, and so a stop, which happens in Listening or Running, ends in Dead.
C36_StateResultConsistent ==
    /\ Live => (n.state = "BUSNAME_FAILED" <=> n.result # "BUSNAME_SUCCESS")
    /\ bstep.op = "stop" =>
           /\ bstep.pre.state \in {"BUSNAME_LISTENING", "BUSNAME_RUNNING"}
           /\ bstep.pre.result = "BUSNAME_SUCCESS"
           /\ n.state = "BUSNAME_DEAD"

\* a unit that had failed, was reset and started again was stopped from
\* Running, and is Dead
C36_Witness ==
    /\ bstep.op = "stop"
    /\ bstep.pre.state = "BUSNAME_RUNNING"
    /\ n.state = "BUSNAME_DEAD"
    /\ n.result = "BUSNAME_SUCCESS"


\* the unit exists and has been coldplugged
Plugged == phase \in {"live", "serialized"}

\* C37: in every state of a coldplugged unit, a Listening bus-name holds an
\* open starter descriptor and the event source watching that descriptor is
\* enabled, and a Running bus-name holds an open starter descriptor and has no
\* enabled event source.
C37_Coupling ==
    Plugged =>
    /\ n.state = "BUSNAME_LISTENING" =>
           /\ n.starter_fd >= 0
           /\ n.starter_fd \in kfds
           /\ n.event_source.some
           /\ n.event_source.enabled
           /\ n.event_source.fd = n.starter_fd
    /\ n.state = "BUSNAME_RUNNING" =>
           /\ n.starter_fd >= 0
           /\ n.starter_fd \in kfds
           /\ ~n.event_source.enabled


\* C38: in every live state the state and the result of the unit have a name
\* that parses back to the same value, and a unit serialized in Failed comes
\* back, from the lines written in any order and coldplug, Failed with the
\* result it had.
C38_NameTables ==
    Live =>
        /\ busname_state_to_string(n.state) # NULL
        /\ busname_state_from_string(busname_state_to_string(n.state)) = n.state
        /\ busname_result_to_string(n.result) # NULL
        /\ busname_result_from_string(busname_result_to_string(n.result)) = n.result
        /\ n.state = "BUSNAME_FAILED" =>
               \A d \in EnvDup :
                   LET s == busname_serialize(BBegin, d)
                   IN  s.r = 0 =>
                           \A p \in Perms(s.out), e \in EnvListen :
                               LET c == Restore(busname_done(s), p, e)
                               IN  /\ c.state = "BUSNAME_FAILED"
                                   /\ c.result = n.result


\* the last event was the device-appeared event of a device whose interface
\* index the registry already held
AddedAgain ==
    /\ added.op = "add"
    /\ hashmap_get(added.pre, added.device.ifindex) # NoLink

\* C39: the registry never holds two links of one interface index, a
\* device-appeared event creates at most one link, and link_add for an index
\* the registry already holds returns 0 having created no link, run no
\* link_configure (no request submitted, no state assigned) and left the
\* registry, with the state and the pending counter of every link, as it was.
C39_OneLinkPerIndex ==
    /\ \A a, b \in links : a.ifindex = b.ifindex => a = b
    /\ \A l \in links : l.ifindex \in 1..MaxIfindex
    /\ added.created <= 1
    /\ AddedAgain =>
           /\ added.r = 0
           /\ added.created = 0
           /\ added.configured = 0
           /\ added.calls = <<>>
           /\ added.path = <<>>
           /\ links = added.pre

\* the device of a link that is waiting for a completion, its pending counter
\* not zero, appeared again while another link is registered as well
C39_Witness ==
    /\ AddedAgain
    /\ hashmap_get(links, added.device.ifindex).rtnl_messages > 0
    /\ hashmap_get(links, added.device.ifindex).state = "SetAddresses"
    /\ Cardinality(links) > 1

====
